---------------------------- MODULE Spec2Model ----------------------------
(***************************************************************************)
(* Model of the AdAgentOS backend: the /chat request pipeline (question -> *)
(* generated query text -> safety validation -> in-memory filtering and    *)
(* aggregation -> rendered answer) in the four generations of the server   *)
(* that the repository holds:                                              *)
(*   "v1"  src/server.js:1-315      dataAgent/analysisAgent/optimization   *)
(*   "v2"  src/server.js:317-1094   query generator + validator + charts   *)
(*   "v3"  src/unnamed/part_001     query generator + validator            *)
(*   "v4"  src/unnamed/part_000     goal-aware pipeline with history       *)
(* Texts are TLA+ strings, handled character by character with Len,        *)
(* SubSeq and \o, so that the JavaScript string tests (toUpperCase,        *)
(* startsWith, includes, regular expressions) are computed, not assumed.   *)
(***************************************************************************)
EXTENDS Integers, Sequences, FiniteSets, TLC

VARIABLES
    build,      \* which generation of the server is running
    pc,         \* pc[r]: position of request r's handler
    req,        \* req[r]: the request body (message, conversationHistory)
    ctx,        \* ctx[r]: the handler's local variables
    calls,      \* calls[r]: the collaborators invoked so far, in order
    responses,  \* responses[r]: the results sent to the caller, in order
    unit        \* a direct call of one pure function (unit harness)

vars == <<build, pc, req, ctx, calls, responses, unit>>

(***************************************************************************)
(* JavaScript values                                                       *)
(***************************************************************************)
Null == "<null>"
Undefined == "<undefined>"

(***************************************************************************)
(* String primitives                                                       *)
(***************************************************************************)
WhiteSpace == {" ", "\n", "\t", "\r"}
LowerLetters == "abcdefghijklmnopqrstuvwxyz"
UpperLetters == "ABCDEFGHIJKLMNOPQRSTUVWXYZ"

\* the character at position i, "" outside the text (as s[i] is undefined)
CharAt(s, i) == IF i \in 1..Len(s) THEN SubSeq(s, i, i) ELSE ""

UpperOf ==
    [c \in {CharAt(LowerLetters, i) : i \in 1..26} |->
        CharAt(UpperLetters, CHOOSE i \in 1..26 : CharAt(LowerLetters, i) = c)]

LowerOf ==
    [c \in {CharAt(UpperLetters, i) : i \in 1..26} |->
        CharAt(LowerLetters, CHOOSE i \in 1..26 : CharAt(UpperLetters, i) = c)]

\* the part of s between positions i and j that lies inside the text
slice(s, i, j) ==
    LET a == IF i < 1 THEN 1 ELSE i
        b == IF j > Len(s) THEN Len(s) ELSE j
    IN IF a > b THEN "" ELSE SubSeq(s, a, b)

\* the text is converted half by half
RECURSIVE toUpperCase(_)
toUpperCase(s) ==
    IF Len(s) = 0 THEN ""
    ELSE IF Len(s) = 1
    THEN (IF s \in DOMAIN UpperOf THEN UpperOf[s] ELSE s)
    ELSE toUpperCase(SubSeq(s, 1, Len(s) \div 2))
            \o toUpperCase(SubSeq(s, Len(s) \div 2 + 1, Len(s)))

RECURSIVE toLowerCase(_)
toLowerCase(s) ==
    IF Len(s) = 0 THEN ""
    ELSE IF Len(s) = 1
    THEN (IF s \in DOMAIN LowerOf THEN LowerOf[s] ELSE s)
    ELSE toLowerCase(SubSeq(s, 1, Len(s) \div 2))
            \o toLowerCase(SubSeq(s, Len(s) \div 2 + 1, Len(s)))

\* String.prototype.includes
includes(s, p) ==
    \E i \in 1..(Len(s) - Len(p) + 1) : SubSeq(s, i, i + Len(p) - 1) = p

\* String.prototype.startsWith
startsWith(s, p) == Len(s) >= Len(p) /\ SubSeq(s, 1, Len(p)) = p

\* String.prototype.indexOf, with positions counted from 1; 0 is "not found"
indexOf(s, p) ==
    IF includes(s, p)
    THEN CHOOSE i \in 1..(Len(s) - Len(p) + 1) :
            /\ SubSeq(s, i, i + Len(p) - 1) = p
            /\ \A j \in 1..(i - 1) : SubSeq(s, j, j + Len(p) - 1) # p
    ELSE 0

\* String.prototype.trim
trim(s) ==
    LET solid == {i \in 1..Len(s) : CharAt(s, i) \notin WhiteSpace}
    IN IF solid = {} THEN ""
       ELSE SubSeq(s, CHOOSE i \in solid : \A j \in solid : i <= j,
                      CHOOSE i \in solid : \A j \in solid : i >= j)

\* (s.match(/c/g) || []).length for a one-character pattern c
countChar(s, c) == Cardinality({i \in 1..Len(s) : CharAt(s, i) = c})

(***************************************************************************)
(* SQL Validation Layer                                                    *)
(***************************************************************************)
dangerousKeywords_noDelete ==
    <<"DROP", "UPDATE", "INSERT", "ALTER", "CREATE", "EXEC",
      "EXECUTE", "TRUNCATE", "GRANT", "REVOKE">>
dangerousKeywords ==
    <<"DROP", "DELETE", "UPDATE", "INSERT", "ALTER", "CREATE", "EXEC",
      "EXECUTE", "TRUNCATE", "GRANT", "REVOKE">>

\* the first keyword of the list, in list order, that the text includes
firstDangerous(upperSQL) ==
    LET hits == {k \in 1..Len(dangerousKeywords) :
                    includes(upperSQL, dangerousKeywords[k])}
    IN IF hits = {} THEN 0 ELSE CHOOSE k \in hits : \A j \in hits : k <= j

semicolonTooMany_off(sql) == countChar(sql, ";") > 2
semicolonTooMany(sql) == countChar(sql, ";") > 1

validateSQL(sql) ==
    LET upperSQL == toUpperCase(sql)
        k == firstDangerous(upperSQL)
    IN IF ~startsWith(upperSQL, "SELECT")
       THEN [valid |-> FALSE, error |-> "Only SELECT queries are allowed"]
       ELSE IF k # 0
       THEN [valid |-> FALSE,
             error |-> "Dangerous keyword detected: " \o dangerousKeywords[k]]
       ELSE IF semicolonTooMany(sql)
       THEN [valid |-> FALSE, error |-> "Multiple queries not allowed"]
       ELSE IF ~includes(upperSQL, "VIDEO_AD_PERFORMANCE")
       THEN [valid |-> FALSE, error |-> "Invalid table reference"]
       ELSE [valid |-> TRUE, error |-> Undefined]

\* the validator of generation v3: any statement terminator is refused
validateSQL_v3(sql) ==
    LET upperSQL == toUpperCase(sql)
        k == firstDangerous(upperSQL)
    IN IF ~startsWith(upperSQL, "SELECT")
       THEN [valid |-> FALSE, error |-> "Only SELECT queries are allowed"]
       ELSE IF k # 0
       THEN [valid |-> FALSE,
             error |-> "Dangerous keyword detected: " \o dangerousKeywords[k]]
       ELSE IF includes(sql, ";")
       THEN [valid |-> FALSE, error |-> "Multiple queries not allowed"]
       ELSE IF ~includes(upperSQL, "VIDEO_AD_PERFORMANCE")
       THEN [valid |-> FALSE, error |-> "Invalid table reference"]
       ELSE [valid |-> TRUE, error |-> Undefined]

(***************************************************************************)
(* Inputs of the unit harness: query texts handed directly to a function   *)
(***************************************************************************)
DropTableText == "DROP TABLE video_ad_performance"
StackedDeleteText ==
    "SELECT * FROM video_ad_performance; DELETE FROM video_ad_performance"
GroupedSelectText ==
    "SELECT platform, SUM(spend) FROM video_ad_performance WHERE report_month = '2025-10-01' GROUP BY platform"

SqlHeads ==
    {"SELECT * FROM ", "select spend from ", "Select SUM(spend) From ",
     " SELECT * FROM ", "WITH t AS (SELECT 1) SELECT * FROM ",
     "DROP TABLE ", "SELECTED rows of "}
SqlTables ==
    {"video_ad_performance", "VIDEO_AD_PERFORMANCE", "Video_Ad_Performance",
     "video_ad_perf", "users"}
SqlTails ==
    {"", ";", "; ", ";;", "; SELECT 1", "; SELECT 1;", "; select 1; select 2",
     " WHERE platform = 'TikTok'", " GROUP BY platform",
     " WHERE updated_at > 0", " WHERE note = 'a;b'", " WHERE created = 1",
     "; DELETE FROM users", "; drop table users", " LIMIT 20; GRANT ALL;",
     "; EXECUTE x", "; TRUNCATE t; REVOKE y", " /* alter insert */"}

SqlTexts ==
    {h \o t \o tl : h \in SqlHeads, t \in SqlTables, tl \in SqlTails}
        \cup {DropTableText, StackedDeleteText, GroupedSelectText, ""}

(***************************************************************************)
(* Unit harness: one direct call of a pure function                        *)
(***************************************************************************)
UnitIdle == [fn |-> "idle", done |-> TRUE]

UnitCalls ==
    {[fn |-> "validateSQL", sql |-> t, done |-> FALSE,
      ret |-> [valid |-> FALSE, error |-> Undefined]] : t \in SqlTexts}

Call_validateSQL ==
    /\ unit.fn = "validateSQL" /\ ~unit.done
    /\ unit' = [unit EXCEPT !.done = TRUE,
                            !.ret = IF build = "v3" THEN validateSQL_v3(unit.sql)
                                    ELSE validateSQL(unit.sql)]
    /\ UNCHANGED <<build, pc, req, ctx, calls, responses>>

(***************************************************************************)
(* More string primitives used by the handlers                             *)
(***************************************************************************)
Digits == {"0", "1", "2", "3", "4", "5", "6", "7", "8", "9"}
\* the class \w of regular expressions
WordChars ==
    {CharAt(LowerLetters, i) : i \in 1..26}
        \cup {CharAt(UpperLetters, i) : i \in 1..26} \cup Digits \cup {"_"}

\* number of consecutive characters of s, from position i on, that are
\* (inSet = TRUE) or are not (inSet = FALSE) members of the class
span(s, i, class, inSet) ==
    LET stops == {j \in i..Len(s) : (CharAt(s, j) \in class) # inSet}
    IN IF stops = {} THEN Len(s) - i + 1
       ELSE (CHOOSE j \in stops : \A k \in stops : j <= k) - i

\* s.split('\n')
RECURSIVE splitLines(_)
splitLines(s) ==
    LET i == indexOf(s, "\n")
    IN IF i = 0 THEN <<s>>
       ELSE <<SubSeq(s, 1, i - 1)>> \o splitLines(SubSeq(s, i + 1, Len(s)))

\* parts.join(', ')
RECURSIVE joinComma(_)
joinComma(parts) ==
    IF Len(parts) = 0 THEN ""
    ELSE IF Len(parts) = 1 THEN parts[1]
    ELSE parts[1] \o ", " \o joinComma(Tail(parts))

\* sql.replace(/;\s*$/, ''): the terminator that only white space follows
\* is removed together with that white space
stripTrailingSemicolon(sql) ==
    LET hit == {i \in 1..Len(sql) :
                  /\ CharAt(sql, i) = ";"
                  /\ \A j \in (i + 1)..Len(sql) : CharAt(sql, j) \in WhiteSpace}
    IN IF hit = {} THEN sql
       ELSE SubSeq(sql, 1, (CHOOSE i \in hit : TRUE) - 1)

(***************************************************************************)
(* Agent 1: Query Generator Agent -- parsing of the model's response       *)
(***************************************************************************)
DefaultGoal == "CONVERSION"

\* variant: the marker GOAL: is found anywhere in a line
parsedGoal_anywhere(content) ==
    IF includes(content, "GOAL:") /\ includes(content, "SQL:")
    THEN LET lines == splitLines(content)
             found == {i \in 1..Len(lines) : includes(lines[i], "GOAL:")}
             goalLine == lines[CHOOSE i \in found : \A j \in found : i <= j]
         IN trim(SubSeq(goalLine, indexOf(goalLine, "GOAL:") + 5,
                        Len(goalLine)))
    ELSE DefaultGoal

\* generation v4: GOAL:/SQL: markers, default goal, query test on SELECT
parsedGoal(content) ==
    IF includes(content, "GOAL:") /\ includes(content, "SQL:")
    THEN LET lines == splitLines(content)
             found == {i \in 1..Len(lines) : startsWith(lines[i], "GOAL:")}
         IN IF found = {} THEN DefaultGoal
            ELSE LET goalLine ==
                        lines[CHOOSE i \in found : \A j \in found : i <= j]
                 IN trim(SubSeq(goalLine, 6, Len(goalLine)))
    ELSE DefaultGoal

parsedSQL(content) ==
    IF includes(content, "GOAL:") /\ includes(content, "SQL:")
    THEN trim(SubSeq(content, indexOf(content, "SQL:") + 4, Len(content)))
    ELSE content

queryGeneratorAgent(response) ==
    LET content == trim(response)
        sql == parsedSQL(content)
    IN [isSQL |-> includes(toUpperCase(sql), "SELECT"),
        content |-> sql,
        goal |-> parsedGoal(content)]

\* Inputs of the unit harness for the parsing of the response: the text is
\* lead, goal marker, goal text, line break, query marker, query text; a
\* marker may be missing, and the lead may put the goal marker inside a line
ResponseLeads ==
    {[text |-> "", lineStart |-> TRUE],
     [text |-> "Here is the query.\n", lineStart |-> TRUE],
     [text |-> "The ", lineStart |-> FALSE],
     [text |-> "Sure:\n  ", lineStart |-> FALSE]}

ResponseQueries ==
    {[text |-> "SELECT SUM(spend) FROM video_ad_performance",
      select |-> TRUE],
     [text |-> "select platform from video_ad_performance group by platform",
      select |-> TRUE],
     [text |-> "N/A - the data covers October 2025 only.", select |-> FALSE],
     [text |-> "DELETE FROM video_ad_performance", select |-> FALSE]}

ResponseCalls ==
    {[fn |-> "queryGeneratorAgent",
      response |-> lead.text
                    \o (IF gm THEN "GOAL: " \o g \o "  \n" ELSE "")
                    \o (IF qm THEN "SQL:  " ELSE "") \o q.text,
      lead |-> lead.text, goalMarker |-> gm, queryMarker |-> qm,
      lineStart |-> lead.lineStart, goalText |-> g, queryText |-> q.text,
      select |-> q.select, done |-> FALSE,
      ret |-> [isSQL |-> FALSE, content |-> "", goal |-> ""]] :
        lead \in ResponseLeads, q \in ResponseQueries,
        g \in {"AWARENESS", "ENGAGEMENT", "Conversion", "[REACH]"},
        gm \in BOOLEAN, qm \in BOOLEAN}

Call_queryGeneratorAgent ==
    /\ unit.fn = "queryGeneratorAgent" /\ ~unit.done
    /\ unit' = [unit EXCEPT !.done = TRUE,
                            !.ret = queryGeneratorAgent(unit.response)]
    /\ UNCHANGED <<build, pc, req, ctx, calls, responses>>

\* generations v2 and v3: the whole response is the content, no goal
queryGeneratorAgent_v2(response) ==
    [isSQL |-> includes(toUpperCase(response), "SELECT")
                 /\ includes(toUpperCase(response), "FROM"),
     content |-> response,
     goal |-> Undefined]

(***************************************************************************)
(* Detect requested metrics from SQL and user question                     *)
(***************************************************************************)
\* the keyword cascade (all of detectRequestedMetrics in generation v2, the
\* part after the goal rules in generation v4)
metricCascade(sql, userQuestion) ==
    LET upperSQL == toUpperCase(sql)
        q == toLowerCase(userQuestion)
    IN IF \/ includes(upperSQL, "VIDEO_COMPLETION_RATE")
          \/ includes(q, "video completion")
          \/ includes(q, "completion rate")
       THEN <<"video_completion_rate">>
       ELSE IF /\ includes(q, "video")
               /\ (includes(q, "funnel") \/ includes(q, "drop")
                     \/ includes(q, "retention"))
       THEN <<"video_funnel">>
       ELSE IF \/ includes(q, "3-second") \/ includes(q, "3 second")
               \/ includes(upperSQL, "VIEWS_3S")
       THEN <<"video_retention">>
       ELSE IF \/ includes(upperSQL, "CTR") \/ includes(q, "ctr")
               \/ includes(q, "click-through") \/ includes(q, "click through")
       THEN <<"ctr">>
       ELSE IF \/ includes(upperSQL, "CONVERSION_RATE")
               \/ (includes(q, "conversion") /\ includes(q, "rate"))
       THEN <<"conversion_rate">>
       ELSE IF \/ includes(upperSQL, "CPA")
               \/ includes(q, "cost per acquisition") \/ includes(q, "cpa")
               \/ includes(q, "cost per conversion")
               \/ includes(q, "acquisition cost")
       THEN <<"cpa">>
       ELSE IF \/ includes(upperSQL, "CPM") \/ includes(q, "cpm")
               \/ includes(q, "cost per thousand")
               \/ includes(q, "cost per mille")
       THEN <<"cpm">>
       ELSE IF includes(q, "conversion") /\ ~includes(q, "rate")
       THEN <<"conversions">>
       ELSE IF /\ includes(q, "click") /\ ~includes(q, "through")
               /\ ~includes(q, "rate")
       THEN <<"clicks">>
       ELSE IF includes(q, "impression")
       THEN <<"impressions">>
       ELSE IF includes(q, "spend") /\ ~includes(q, "revenue")
       THEN <<"spend">>
       ELSE IF includes(q, "revenue") /\ ~includes(q, "spend")
       THEN <<"revenue">>
       ELSE IF \/ includes(upperSQL, "ROAS") \/ includes(q, "roas")
               \/ includes(q, "return on ad")
       THEN <<"roas">>
       ELSE IF \/ includes(q, "invest") \/ includes(q, "budget")
               \/ includes(q, "allocate") \/ includes(q, "optimize")
       THEN <<"financial">>
       ELSE IF \/ includes(q, "performance") \/ includes(q, "compare")
               \/ includes(q, "best") \/ includes(q, "top")
       THEN IF includes(q, "video") THEN <<"video_completion_rate">>
            ELSE <<"financial">>
       ELSE <<"financial">>

\* variant: the goal rules come after the keyword cascade
detectRequestedMetrics_keywordsFirst(sql, userQuestion, goal) ==
    IF metricCascade(sql, userQuestion) # <<"financial">>
    THEN metricCascade(sql, userQuestion)
    ELSE IF goal = "AWARENESS" THEN <<"impressions", "cpm">>
    ELSE IF goal = "ENGAGEMENT" THEN <<"ctr">>
    ELSE <<"financial">>

\* generation v4
detectRequestedMetrics(sql, userQuestion, goal) ==
    IF goal = "AWARENESS" THEN <<"impressions", "cpm">>
    ELSE IF goal = "ENGAGEMENT" THEN <<"ctr">>
    ELSE IF goal = "CONVERSION" THEN <<"financial">>
    ELSE metricCascade(sql, userQuestion)

\* variant: the ROAS rule is tried before all the others
detectRequestedMetrics_v2_roasFirst(sql, userQuestion) ==
    IF \/ includes(toUpperCase(sql), "ROAS")
       \/ includes(toLowerCase(userQuestion), "roas")
    THEN <<"roas">>
    ELSE metricCascade(sql, userQuestion)

\* generation v2
detectRequestedMetrics_v2(sql, userQuestion) == metricCascade(sql, userQuestion)

(***************************************************************************)
(* Inputs of the unit harness for detectRequestedMetrics.  A question is   *)
(* made of two phrases; a phrase or a query text is listed with the rule   *)
(* of the cascade that it is written for (0: none) and with the words of   *)
(* the negative conditions that it contains.                               *)
(***************************************************************************)
MetricPhrases ==
    {[text |-> "the numbers", rule |-> 0, words |-> {}],
     [text |-> "completion rate", rule |-> 1, words |-> {"rate"}],
     [text |-> "video funnel", rule |-> 2, words |-> {"video"}],
     [text |-> "3-second views", rule |-> 3, words |-> {}],
     [text |-> "CTR", rule |-> 4, words |-> {}],
     [text |-> "conversion rate", rule |-> 5,
      words |-> {"rate", "conversion"}],
     [text |-> "CPA", rule |-> 6, words |-> {}],
     [text |-> "cpm", rule |-> 7, words |-> {}],
     [text |-> "Conversions", rule |-> 8, words |-> {"conversion"}],
     [text |-> "clicks", rule |-> 9, words |-> {}],
     [text |-> "impressions", rule |-> 10, words |-> {}],
     [text |-> "spend", rule |-> 11, words |-> {"spend"}],
     [text |-> "revenue", rule |-> 12, words |-> {"revenue"}],
     [text |-> "ROAS", rule |-> 13, words |-> {}],
     [text |-> "where to invest", rule |-> 14, words |-> {}],
     [text |-> "the best one", rule |-> 15, words |-> {}],
     [text |-> "our videos", rule |-> 0, words |-> {"video"}]}

MetricQueries ==
    {[text |-> "SELECT SUM(spend) FROM video_ad_performance", rule |-> 0],
     [text |-> "select sum(views_3s) from video_ad_performance", rule |-> 3],
     [text |-> "SELECT SUM(clicks) * 100.0 / SUM(impressions) AS ctr FROM video_ad_performance",
      rule |-> 4],
     [text |-> "SELECT SUM(revenue) / SUM(spend) AS roas FROM video_ad_performance",
      rule |-> 13]}

\* the rules that the parts of an input are written for, the rules with a
\* negative condition counted only when the condition holds
matchingRules(p1, p2, q) ==
    LET words == p1.words \cup p2.words
        tags == {p1.rule, p2.rule, q.rule} \ {0}
    IN {k \in tags \ {8, 9, 11, 12} : TRUE}
        \cup (IF "conversion" \in words /\ "rate" \in words
              THEN {5} ELSE {})
        \cup (IF "conversion" \in words /\ "rate" \notin words
              THEN {8} ELSE {})
        \cup (IF 9 \in tags /\ "rate" \notin words THEN {9} ELSE {})
        \cup (IF "spend" \in words /\ "revenue" \notin words
              THEN {11} ELSE {})
        \cup (IF "revenue" \in words /\ "spend" \notin words
              THEN {12} ELSE {})

MetricCalls ==
    {[fn |-> "detectRequestedMetrics", sql |-> q.text,
      userQuestion |-> "Show " \o p1.text \o " and " \o p2.text,
      goal |-> g, rules |-> matchingRules(p1, p2, q),
      video |-> "video" \in p1.words \cup p2.words,
      done |-> FALSE, ret |-> <<>>] :
        p1 \in MetricPhrases, p2 \in MetricPhrases, q \in MetricQueries,
        g \in {"AWARENESS", "ENGAGEMENT", "CONVERSION", Undefined,
                "awareness", "REACH"}}

\* generation v2 has no parameter goal
Call_detectRequestedMetrics ==
    /\ unit.fn = "detectRequestedMetrics" /\ ~unit.done
    /\ unit' = [unit EXCEPT
                    !.done = TRUE,
                    !.ret = IF build = "v4"
                            THEN detectRequestedMetrics(unit.sql,
                                    unit.userQuestion, unit.goal)
                            ELSE detectRequestedMetrics_v2(unit.sql,
                                    unit.userQuestion)]
    /\ UNCHANGED <<build, pc, req, ctx, calls, responses>>

(***************************************************************************)
(* Detect visualization type and dimension from SQL                        *)
(***************************************************************************)
detectVisualization(sql) ==
    LET upperSQL == toUpperCase(sql)
    IN IF includes(upperSQL, "GROUP BY")
       THEN [type |-> "comparison",
             dimension |->
                IF includes(upperSQL, "GROUP BY PLATFORM") THEN "platform"
                ELSE IF includes(upperSQL, "GROUP BY REGION") THEN "region"
                ELSE IF includes(upperSQL, "GROUP BY AGE_GROUP")
                THEN "age_group"
                ELSE IF includes(upperSQL, "GROUP BY GENDER") THEN "gender"
                ELSE Null]
       ELSE [type |-> "single", dimension |-> Null]

(***************************************************************************)
(* Helper: Parse filter values from SQL                                    *)
(***************************************************************************)
\* a match of  column\s*=\s*'([^']+)'  (flag i) that starts at position i:
\* the captured text, or Null
singleMatchAt(sql, columnName, i) ==
    LET a == i + Len(columnName)
        eq == a + span(sql, a, WhiteSpace, TRUE)
        quote == eq + 1 + span(sql, eq + 1, WhiteSpace, TRUE)
        n == span(sql, quote + 1, {"'"}, FALSE)
    IN IF /\ toLowerCase(slice(sql, i, a - 1)) = toLowerCase(columnName)
          /\ CharAt(sql, eq) = "="
          /\ CharAt(sql, quote) = "'"
          /\ n >= 1
          /\ CharAt(sql, quote + 1 + n) = "'"
       THEN SubSeq(sql, quote + 1, quote + n)
       ELSE Null

\* a match of  column\s+IN\s*\(([^)]+)\)  (flag i) that starts at position i
inMatchAt(sql, columnName, i) ==
    LET a == i + Len(columnName)
        ws == span(sql, a, WhiteSpace, TRUE)
        kw == a + ws
        paren == kw + 2 + span(sql, kw + 2, WhiteSpace, TRUE)
        n == span(sql, paren + 1, {")"}, FALSE)
    IN IF /\ toLowerCase(slice(sql, i, a - 1)) = toLowerCase(columnName)
          /\ ws >= 1
          /\ toLowerCase(slice(sql, kw, kw + 1)) = "in"
          /\ CharAt(sql, paren) = "("
          /\ n >= 1
          /\ CharAt(sql, paren + 1 + n) = ")"
       THEN SubSeq(sql, paren + 1, paren + n)
       ELSE Null

\* s.split(',')
RECURSIVE splitComma(_)
splitComma(s) ==
    LET i == indexOf(s, ",")
    IN IF i = 0 THEN <<s>>
       ELSE <<SubSeq(s, 1, i - 1)>> \o splitComma(SubSeq(s, i + 1, Len(s)))

\* v.replace(/'/g, '')
RECURSIVE removeQuotes(_)
removeQuotes(s) ==
    IF Len(s) = 0 THEN ""
    ELSE IF Len(s) = 1 THEN (IF s = "'" THEN "" ELSE s)
    ELSE removeQuotes(SubSeq(s, 1, Len(s) \div 2))
            \o removeQuotes(SubSeq(s, Len(s) \div 2 + 1, Len(s)))

\* .map(v => v.trim().replace(/'/g, '')).filter(v => v.length > 0)
RECURSIVE cleanValues(_)
cleanValues(parts) ==
    IF Len(parts) = 0 THEN <<>>
    ELSE LET v == removeQuotes(trim(parts[1]))
         IN (IF Len(v) > 0 THEN <<v>> ELSE <<>>) \o cleanValues(Tail(parts))

\* the positions at which the pattern p occurs in s
occurrences(s, p) ==
    {i \in 1..(Len(s) - Len(p) + 1) : SubSeq(s, i, i + Len(p) - 1) = p}

\* the result is [isNull |-> TRUE, values |-> <<>>] for null.  A match can
\* only start where the column name occurs (in any case of letters); the
\* leftmost match is the one that String.prototype.match returns.
\* variant: a text with no predicate gives the empty list
parseFilterValues_emptyList(sql, columnName) ==
    LET named == occurrences(toLowerCase(sql), toLowerCase(columnName))
        singles == {i \in named : singleMatchAt(sql, columnName, i) # Null}
        ins == {i \in named : inMatchAt(sql, columnName, i) # Null}
    IN IF singles # {}
       THEN [isNull |-> FALSE,
             values |-> <<singleMatchAt(sql, columnName,
                            CHOOSE i \in singles : \A j \in singles : i <= j)>>]
       ELSE IF ins # {}
       THEN [isNull |-> FALSE,
             values |-> cleanValues(splitComma(inMatchAt(sql, columnName,
                            CHOOSE i \in ins : \A j \in ins : i <= j)))]
       ELSE [isNull |-> FALSE, values |-> <<>>]

parseFilterValues(sql, columnName) ==
    LET named == occurrences(toLowerCase(sql), toLowerCase(columnName))
        singles == {i \in named : singleMatchAt(sql, columnName, i) # Null}
        ins == {i \in named : inMatchAt(sql, columnName, i) # Null}
    IN IF singles # {}
       THEN [isNull |-> FALSE,
             values |-> <<singleMatchAt(sql, columnName,
                            CHOOSE i \in singles : \A j \in singles : i <= j)>>]
       ELSE IF ins # {}
       THEN [isNull |-> FALSE,
             values |-> cleanValues(splitComma(inMatchAt(sql, columnName,
                            CHOOSE i \in ins : \A j \in ins : i <= j)))]
       ELSE [isNull |-> TRUE, values |-> <<>>]

(***************************************************************************)
(* Inputs of the unit harness for parseFilterValues: a query text is a     *)
(* WHERE clause around one predicate on a column; form names the kind of   *)
(* predicate and literals the values that the predicate lists              *)
(***************************************************************************)
FilterColumns ==
    {[name |-> "platform", written |-> "platform"],
     [name |-> "platform", written |-> "PLATFORM"],
     [name |-> "region", written |-> "Region"],
     [name |-> "age_group", written |-> "age_group"],
     [name |-> "gender", written |-> "gender"]}

FilterPredicates ==
    {[form |-> "eq", pre |-> "", post |-> " = 'TikTok'",
      literals |-> <<"TikTok">>],
     [form |-> "eq", pre |-> "", post |-> "='West'", literals |-> <<"West">>],
     [form |-> "eq", pre |-> "(", post |-> "  =\n '18-24')",
      literals |-> <<"18-24">>],
     [form |-> "in", pre |-> "", post |-> " IN ('TikTok','YouTube')",
      literals |-> <<"TikTok", "YouTube">>],
     [form |-> "in", pre |-> "", post |-> " in ( 'YouTube' , 'TikTok' , 'Instagram' )",
      literals |-> <<"YouTube", "TikTok", "Instagram">>],
     [form |-> "in", pre |-> "", post |-> " IN('West')",
      literals |-> <<"West">>],
     [form |-> "none", pre |-> "report_month = '2025-10-01' /* ",
      post |-> " */", literals |-> <<>>],
     [form |-> "range", pre |-> "", post |-> " > 'M'", literals |-> <<"M">>],
     [form |-> "range", pre |-> "", post |-> " >= 'M'", literals |-> <<"M">>],
     [form |-> "range", pre |-> "", post |-> " BETWEEN 'A' AND 'M'",
      literals |-> <<"A", "M">>],
     [form |-> "range", pre |-> "", post |-> " LIKE 'Tik%'",
      literals |-> <<"Tik%">>],
     [form |-> "negated", pre |-> "", post |-> " <> 'TikTok'",
      literals |-> <<"TikTok">>],
     [form |-> "negated", pre |-> "", post |-> " != 'TikTok'",
      literals |-> <<"TikTok">>],
     [form |-> "negated", pre |-> "", post |-> " NOT IN ('TikTok','YouTube')",
      literals |-> <<"TikTok", "YouTube">>],
     [form |-> "negated", pre |-> "NOT (", post |-> " = 'TikTok')",
      literals |-> <<"TikTok">>],
     [form |-> "negated", pre |-> "NOT ", post |-> " IN ('West','South')",
      literals |-> <<"West", "South">>],
     [form |-> "computed", pre |-> "LOWER(", post |-> ") = 'tiktok'",
      literals |-> <<"tiktok">>],
     [form |-> "computed", pre |-> "", post |-> " || '' = 'TikTok'",
      literals |-> <<"TikTok">>],
     [form |-> "blank", pre |-> "", post |-> " IN ('')", literals |-> <<>>],
     [form |-> "blank", pre |-> "", post |-> " IN ( , )", literals |-> <<>>],
     [form |-> "blank", pre |-> "", post |-> " = ''", literals |-> <<>>]}

filterText(c, p, tail) ==
    "SELECT SUM(spend) FROM video_ad_performance WHERE "
        \o (IF p.form = "none" THEN p.pre \o p.post
            ELSE p.pre \o c.written \o p.post)
        \o tail

FilterCalls ==
    {[fn |-> "parseFilterValues", sql |-> filterText(c, p, tail),
      columnName |-> c.name, form |-> p.form, literals |-> p.literals,
      done |-> FALSE, ret |-> [isNull |-> TRUE, values |-> <<>>]] :
        c \in FilterColumns, p \in FilterPredicates,
        tail \in {"", " GROUP BY platform", " ORDER BY region LIMIT 20"}}

Call_parseFilterValues ==
    /\ unit.fn = "parseFilterValues" /\ ~unit.done
    /\ unit' = [unit EXCEPT
                    !.done = TRUE,
                    !.ret = parseFilterValues(unit.sql, unit.columnName)]
    /\ UNCHANGED <<build, pc, req, ctx, calls, responses>>

(***************************************************************************)
(* Inputs of the unit harness for detectVisualization: a query text with   *)
(* no grouping clause, or with one grouping clause made of the keyword, a  *)
(* separator of white space and one column name                            *)
(***************************************************************************)
GroupColumns ==
    {"platform", "region", "age_group", "gender", "Platform", "REGION",
     "campaign_id", "report_month"}

UngroupedTexts ==
    {"SELECT SUM(spend) FROM video_ad_performance",
     "SELECT SUM(revenue) FROM video_ad_performance WHERE platform = 'TikTok'",
     "SELECT platform, spend FROM video_ad_performance ORDER BY platform",
     "select region from video_ad_performance where region in ('West')"}

GroupCalls ==
    {[fn |-> "detectVisualization",
      sql |-> "SELECT SUM(spend), SUM(revenue) FROM video_ad_performance "
                \o k \o sep \o c \o tail,
      grouped |-> TRUE, column |-> toLowerCase(c), separator |-> sep,
      done |-> FALSE, ret |-> [type |-> Null, dimension |-> Null]] :
        k \in {"GROUP BY", "group by", "Group By"},
        sep \in {" ", "  ", "\n"}, c \in GroupColumns,
        tail \in {"", " ORDER BY 2 DESC", ";"}}
    \cup
    {[fn |-> "detectVisualization", sql |-> t,
      grouped |-> FALSE, column |-> Null, separator |-> "",
      done |-> FALSE, ret |-> [type |-> Null, dimension |-> Null]] : t \in UngroupedTexts}

Call_detectVisualization ==
    /\ unit.fn = "detectVisualization" /\ ~unit.done
    /\ unit' = [unit EXCEPT !.done = TRUE,
                            !.ret = detectVisualization(unit.sql)]
    /\ UNCHANGED <<build, pc, req, ctx, calls, responses>>

(***************************************************************************)
(* Records and aggregates.  A row is a record with the four dimension      *)
(* columns, the ten counters (whole numbers) and the set nulls of the      *)
(* counters whose value is null.  Ratios that the code rounds to two       *)
(* decimals are kept as whole hundredths (ctr = 250 stands for 2.5).       *)
(***************************************************************************)
Counters ==
    {"spend", "impressions", "clicks", "conversions", "revenue",
     "video_starts", "views_3s", "views_25", "views_50", "views_100"}

\* parseInt(row.f || 0), parseFloat(row.f || 0)
counterOf(row, f) == IF f \in row.nulls THEN 0 ELSE row[f]

RECURSIVE sumOf(_, _)
sumOf(data, f) ==
    IF Len(data) = 0 THEN 0 ELSE counterOf(data[1], f) + sumOf(Tail(data), f)

\* a / b rounded to the nearest whole number, halves upwards (Math.round,
\* and toFixed on the scaled value)
roundDiv(a, b) == (2 * a + b) \div (2 * b)

\* variant: without the zero of the guard
roasOf_one(revenue, spend) == IF spend > 0 THEN roundDiv(revenue, spend) ELSE 1

roasOf(revenue, spend) == IF spend > 0 THEN roundDiv(revenue, spend) ELSE 0

\* the sums of a group of rows and the metrics derived from the sums
aggregateRows(data) ==
    LET spend == sumOf(data, "spend")
        impressions == sumOf(data, "impressions")
        clicks == sumOf(data, "clicks")
        conversions == sumOf(data, "conversions")
        revenue == sumOf(data, "revenue")
        video_starts == sumOf(data, "video_starts")
        views_100 == sumOf(data, "views_100")
        completion == IF video_starts > 0
                      THEN roundDiv(views_100 * 10000, video_starts) ELSE 0
    IN [spend |-> spend, impressions |-> impressions, clicks |-> clicks,
        conversions |-> conversions, revenue |-> revenue,
        video_starts |-> video_starts,
        views_3s |-> sumOf(data, "views_3s"),
        views_25 |-> sumOf(data, "views_25"),
        views_50 |-> sumOf(data, "views_50"),
        views_100 |-> views_100,
        roas |-> roasOf(revenue, spend),
        ctr |-> IF impressions > 0
                THEN roundDiv(clicks * 10000, impressions) ELSE 0,
        cpa |-> IF conversions > 0
                THEN roundDiv(spend * 100, conversions) ELSE 0,
        conversionRate |-> IF clicks > 0
                           THEN roundDiv(conversions * 10000, clicks) ELSE 0,
        completionRate |-> completion,
        video_completion_rate |-> completion,
        cpm |-> IF impressions > 0
                THEN roundDiv(spend * 100000, impressions) ELSE 0]

\* variant: the last record is left out of the sums
aggregateSingleResult_dropLast(data) ==
    aggregateRows(SubSeq(data, 1, Len(data) - 1))

\* Helper: Aggregate single result (no grouping)
aggregateSingleResult(data) == aggregateRows(data)

\* variant: the key is the value in lower case
groupKey_lowerCase(row, dimension) ==
    IF dimension = Null THEN "undefined" ELSE toLowerCase(row[dimension])

\* the property name under which a row is grouped: row[dimension]
groupKey(row, dimension) ==
    IF dimension = Null THEN "undefined" ELSE row[dimension]

\* the keys in the order in which forEach first creates them
RECURSIVE keyOrder(_, _, _)
keyOrder(data, dimension, seen) ==
    IF Len(data) = 0 THEN <<>>
    ELSE LET k == groupKey(data[1], dimension)
         IN IF k \in seen THEN keyOrder(Tail(data), dimension, seen)
            ELSE <<k>> \o keyOrder(Tail(data), dimension, seen \cup {k})

\* Helper: Aggregate by dimension.  The object is the sequence of its
\* entries [key, value] in insertion order.
aggregateByDimension(data, dimension) ==
    LET keys == keyOrder(data, dimension, {})
    IN [i \in 1..Len(keys) |->
          [key |-> keys[i],
           value |-> aggregateRows(
                SelectSeq(data,
                    LAMBDA row : groupKey(row, dimension) = keys[i]))]]

(***************************************************************************)
(* Execute SQL and aggregate data (generations v2 and v4)                  *)
(***************************************************************************)
Dimensions == <<"platform", "region", "age_group", "gender">>

\* filteredData.filter(row => values.includes(row.column)), when values is
\* not null
\* variant: a filter that is null keeps no record
applyFilter_nullExcludes(data, filter, column) ==
    SelectSeq(data,
        LAMBDA row : \E i \in 1..Len(filter.values) :
                        filter.values[i] = row[column])

applyFilter(data, filter, column) ==
    IF filter.isNull THEN data
    ELSE SelectSeq(data,
            LAMBDA row : \E i \in 1..Len(filter.values) :
                            filter.values[i] = row[column])

\* what executeAndAggregate reads off the query text: the filter of each
\* dimension column and the shape
queryPlan(sql) ==
    [filters |-> [i \in 1..Len(Dimensions) |->
                    parseFilterValues(sql, Dimensions[i])],
     visualization |-> detectVisualization(sql)]

\* the platform, region, age group and gender filters, applied in turn
RECURSIVE applyFilters(_, _, _)
applyFilters(data, filters, i) ==
    IF i > Len(Dimensions) THEN data
    ELSE applyFilters(applyFilter(data, filters[i], Dimensions[i]),
                      filters, i + 1)

NullViz ==
    [isNull |-> TRUE, type |-> Null, dimension |-> Null,
     requestedMetrics |-> <<>>, goal |-> Undefined, data |-> <<>>]

\* rawData is one aggregate (kind "single") or an object of aggregates
rawSingle(agg) == [kind |-> "single", single |-> agg, groups |-> <<>>]
rawGroups(entries) ==
    [kind |-> "comparison", single |-> aggregateRows(<<>>), groups |-> entries]

NoResult ==
    [threw |-> FALSE, error |-> "", visualization |-> NullViz,
     rawData |-> rawSingle(aggregateRows(<<>>))]

\* generation v4, on the rows that the record source returned.  The
\* identifier queryResult of line 443 is a constant of the /chat handler and
\* is not in scope in this function: evaluating it throws a ReferenceError,
\* which the catch of line 456 rethrows.
queryResultInScope == FALSE

executePlan(plan, sql, userQuestion, goal, data) ==
    LET filteredData == applyFilters(data, plan.filters, 1)
        visualization == plan.visualization
    IN IF visualization.type = "single"
       THEN [threw |-> FALSE, error |-> "",
             visualization |-> NullViz,
             rawData |-> rawSingle(aggregateSingleResult(filteredData))]
       ELSE LET aggregated ==
                    aggregateByDimension(filteredData, visualization.dimension)
            IN IF ~queryResultInScope
               THEN [NoResult EXCEPT !.threw = TRUE,
                        !.error = "queryResult is not defined"]
               ELSE [threw |-> FALSE, error |-> "",
                     visualization |->
                        [isNull |-> FALSE, type |-> "comparison",
                         dimension |-> visualization.dimension,
                         requestedMetrics |->
                            detectRequestedMetrics(sql, userQuestion, goal),
                         goal |-> goal,
                         data |-> aggregated],
                     rawData |-> rawGroups(aggregated)]

executeAndAggregate(sql, userQuestion, goal, data) ==
    executePlan(queryPlan(sql), sql, userQuestion, goal, data)

\* variant: a question about investing is answered from all the records
executePlan_v2_byQuestion(plan, sql, userQuestion, data) ==
    LET filteredData ==
            IF includes(toLowerCase(userQuestion), "invest") THEN data
            ELSE applyFilters(data, plan.filters, 1)
        visualization == plan.visualization
    IN IF visualization.type = "single"
       THEN [threw |-> FALSE, error |-> "",
             visualization |-> NullViz,
             rawData |-> rawSingle(aggregateSingleResult(filteredData))]
       ELSE LET aggregated ==
                    aggregateByDimension(filteredData, visualization.dimension)
            IN [threw |-> FALSE, error |-> "",
                visualization |->
                    [isNull |-> FALSE, type |-> "comparison",
                     dimension |-> visualization.dimension,
                     requestedMetrics |->
                        detectRequestedMetrics_v2(sql, userQuestion),
                     goal |-> Undefined,
                     data |-> aggregated],
                rawData |-> rawGroups(aggregated)]

\* generation v2
executePlan_v2(plan, sql, userQuestion, data) ==
    LET filteredData == applyFilters(data, plan.filters, 1)
        visualization == plan.visualization
    IN IF visualization.type = "single"
       THEN [threw |-> FALSE, error |-> "",
             visualization |-> NullViz,
             rawData |-> rawSingle(aggregateSingleResult(filteredData))]
       ELSE LET aggregated ==
                    aggregateByDimension(filteredData, visualization.dimension)
            IN [threw |-> FALSE, error |-> "",
                visualization |->
                    [isNull |-> FALSE, type |-> "comparison",
                     dimension |-> visualization.dimension,
                     requestedMetrics |->
                        detectRequestedMetrics_v2(sql, userQuestion),
                     goal |-> Undefined,
                     data |-> aggregated],
                rawData |-> rawGroups(aggregated)]

executeAndAggregate_v2(sql, userQuestion, data) ==
    executePlan_v2(queryPlan(sql), sql, userQuestion, data)

(***************************************************************************)
(* Execute SQL and aggregate data (generation v3)                          *)
(***************************************************************************)
LineBreaks == {"\n", "\r"}

\* the keyword alternatives (GROUP|ORDER|LIMIT|$) at position i
clauseEndAt(sql, i) ==
    \/ i = Len(sql) + 1
    \/ toUpperCase(slice(sql, i, i + 4)) \in {"GROUP", "ORDER", "LIMIT"}

\* the capture of  /WHERE\s+(.+?)\s+(GROUP|ORDER|LIMIT|$)/i  that starts
\* after the WHERE at position i, or Null: the shortest text without a
\* line break that white space and a clause keyword (or the end) follow
whereMatchAt(sql, i) ==
    LET ws == span(sql, i + 5, WhiteSpace, TRUE)
        c == i + 5 + ws
        sameLine == span(sql, c, LineBreaks, FALSE)
        ends == {n \in 1..sameLine :
                    LET gap == span(sql, c + n, WhiteSpace, TRUE)
                    IN gap >= 1 /\ clauseEndAt(sql, c + n + gap)}
    IN IF /\ toUpperCase(slice(sql, i, i + 4)) = "WHERE"
          /\ ws >= 1
          /\ ends # {}
       THEN SubSeq(sql, c, c + (CHOOSE n \in ends : \A m \in ends : n <= m) - 1)
       ELSE Null

whereClauseOf(sql) ==
    LET hits == {i \in occurrences(toUpperCase(sql), "WHERE") :
                    whereMatchAt(sql, i) # Null}
    IN IF hits = {} THEN Null
       ELSE whereMatchAt(sql, CHOOSE i \in hits : \A j \in hits : i <= j)

\* column = 'value' inside the WHERE clause: the value, or Null
whereValue(whereClause, column) ==
    LET hits == {i \in occurrences(toLowerCase(whereClause), column) :
                    singleMatchAt(whereClause, column, i) # Null}
    IN IF ~includes(whereClause, column) \/ hits = {} THEN Null
       ELSE singleMatchAt(whereClause, column,
                CHOOSE i \in hits : \A j \in hits : i <= j)

RECURSIVE whereFilters(_, _, _)
whereFilters(data, whereClause, columns) ==
    IF Len(columns) = 0 THEN data
    ELSE LET v == whereValue(whereClause, columns[1])
         IN whereFilters(
                IF v = Null THEN data
                ELSE SelectSeq(data, LAMBDA row : row[columns[1]] = v),
                whereClause, Tail(columns))

\* what the v3 function reads off the query text
queryPlan_v3(sql) ==
    LET upperSQL == toUpperCase(sql)
    IN [whereClause |-> IF includes(upperSQL, "WHERE") THEN whereClauseOf(sql)
                        ELSE Null,
        dimension |->
            IF includes(upperSQL, "GROUP BY PLATFORM") THEN "platform"
            ELSE IF includes(upperSQL, "GROUP BY REGION") THEN "region"
            ELSE IF includes(upperSQL, "GROUP BY AGE_GROUP") THEN "age_group"
            ELSE IF includes(upperSQL, "GROUP BY GENDER") THEN "gender"
            ELSE "platform"]

executePlan_v3(plan, data) ==
    LET filteredData ==
            IF plan.whereClause = Null THEN data
            ELSE whereFilters(data, plan.whereClause,
                              <<"platform", "region", "age_group">>)
    IN [threw |-> FALSE, error |-> "", visualization |-> NullViz,
        rawData |->
            rawGroups(aggregateByDimension(filteredData, plan.dimension))]

executeAndAggregate_v3(sql, data) == executePlan_v3(queryPlan_v3(sql), data)

(***************************************************************************)
(* Agent 2: Answer Generator Agent -- what is computed around the call     *)
(***************************************************************************)
strategyKeywords ==
    {"invest", "budget", "allocate", "reallocate", "shift", "optimize",
     "improve", "maximize", "should i", "what should", "how can i",
     "recommend", "suggestion", "advice", "strategy", "best way"}

\* Detect if query is asking for strategy/recommendations
isStrategyQuery(userQuestion) ==
    \E keyword \in strategyKeywords :
        includes(toLowerCase(userQuestion), keyword)

\* userQuestion.split('Current question:'), parts 0 and 1
splitPart0(s, sep) ==
    IF indexOf(s, sep) = 0 THEN s ELSE SubSeq(s, 1, indexOf(s, sep) - 1)
splitPart1(s, sep) ==
    LET rest == SubSeq(s, indexOf(s, sep) + Len(sep), Len(s))
    IN splitPart0(rest, sep)

\* entries.sort((a, b) => (b[1].roas || 0) - (a[1].roas || 0)): a stable
\* insertion of each entry after the entries whose roas is not smaller
RECURSIVE insertByRoas(_, _)
insertByRoas(sorted, e) ==
    IF Len(sorted) = 0 THEN <<e>>
    ELSE IF sorted[1].value.roas >= e.value.roas
    THEN <<sorted[1]>> \o insertByRoas(Tail(sorted), e)
    ELSE <<e>> \o sorted

RECURSIVE sortByRoas(_)
sortByRoas(entries) ==
    IF Len(entries) = 0 THEN <<>>
    ELSE insertByRoas(sortByRoas(SubSeq(entries, 1, Len(entries) - 1)),
                      entries[Len(entries)])

\* the entries of a single aggregate are numbers: (b[1].roas || 0) is 0 for
\* each of them and the order is kept
sortedResults(rawData) ==
    IF rawData.kind = "single" THEN rawData
    ELSE [rawData EXCEPT !.groups = sortByRoas(rawData.groups)]

\* ${h} for a ratio kept in hundredths: 250 -> "2.5", 205 -> "2.05"
ratioText(h) ==
    ToString(h \div 100) \o
        (IF h % 100 = 0 THEN ""
         ELSE IF h % 10 = 0 THEN "." \o ToString((h % 100) \div 10)
         ELSE "." \o ToString((h % 100) \div 10) \o ToString(h % 10))

\* (x / 1000).toFixed(1)
thousandsText(x) ==
    LET tenths == roundDiv(x, 100)
    IN ToString(tenths \div 10) \o "." \o ToString(tenths % 10)

\* the lines of one entry; arrow and bold are the decoration of the
\* generation ("-> ", "**" in v2 and v4, "- ", "" in v3)
fallbackEntry(e, arrow, bold) ==
    "**" \o e.key \o "**\n"
    \o (IF e.value.roas # 0
        THEN arrow \o "ROAS: " \o bold \o ToString(e.value.roas) \o "x"
                \o bold \o "\n"
        ELSE "")
    \o (IF e.value.spend # 0
        THEN arrow \o "Spend: " \o bold \o "$" \o thousandsText(e.value.spend)
                \o "k" \o bold \o "\n"
        ELSE "")
    \o (IF e.value.revenue # 0
        THEN arrow \o "Revenue: " \o bold \o "$"
                \o thousandsText(e.value.revenue) \o "k" \o bold \o "\n"
        ELSE "")
    \o (IF e.value.ctr # 0
        THEN arrow \o "CTR: " \o bold \o ratioText(e.value.ctr) \o "%"
                \o bold \o "\n"
        ELSE "")
    \o "\n"

RECURSIVE fallbackEntries(_, _, _)
fallbackEntries(entries, arrow, bold) ==
    IF Len(entries) = 0 THEN ""
    ELSE fallbackEntry(entries[1], arrow, bold)
            \o fallbackEntries(Tail(entries), arrow, bold)

\* Fallback formatting if answer agent fails (generations v2 and v4): the
\* properties of a single aggregate are numbers, not objects, and add
\* nothing to the output
formatDataFallback(results) ==
    "Here's what I found:\n\n"
        \o (IF results.kind = "single" THEN ""
            ELSE fallbackEntries(results.groups, "-> ", "**"))

\* generation v3
formatDataFallback_v3(results) ==
    "Here's what I found:\n\n" \o fallbackEntries(results.groups, "- ", "")

(***************************************************************************)
(* Generation v1: Data Agent, Analysis Agent, Optimization Agent           *)
(***************************************************************************)
\* which of the three queries of dataAgent the question selects
dataAgentBranch(query) ==
    LET lowerQuery == toLowerCase(query)
    IN IF \/ includes(lowerQuery, "cross channel")
          \/ includes(lowerQuery, "summary")
          \/ includes(lowerQuery, "october")
       THEN "summary"
       ELSE IF includes(lowerQuery, "roas") /\ includes(lowerQuery, "west")
       THEN "roasWest"
       ELSE "rows"

\* the rows that the store returns for the query of the branch: the second
\* query adds .eq('region', 'West')
storeRows(branch, data) ==
    IF branch = "roasWest"
    THEN SelectSeq(data, LAMBDA row : row.region = "West")
    ELSE data

\* the metrics of analysisAgent for one platform of dataAgent's summary.
\* The columns that the summary of the branch does not carry are undefined
\* and are listed in absent; a ratio whose denominator is undefined is 0.
\* All four ratios are rounded to two decimals (hundredths), roas included.
platformMetrics(branch, rows) ==
    LET spend == sumOf(rows, "spend")
        revenue == sumOf(rows, "revenue")
        full == branch = "summary"
        impressions == IF full THEN sumOf(rows, "impressions") ELSE 0
        clicks == IF full THEN sumOf(rows, "clicks") ELSE 0
        conversions == IF full THEN sumOf(rows, "conversions") ELSE 0
    IN [spend |-> spend, impressions |-> impressions, clicks |-> clicks,
        conversions |-> conversions, revenue |-> revenue,
        absent |-> IF full THEN {}
                   ELSE {"impressions", "clicks", "conversions"},
        ctr |-> IF impressions > 0
                THEN roundDiv(clicks * 10000, impressions) ELSE 0,
        conversionRate |-> IF clicks > 0
                           THEN roundDiv(conversions * 10000, clicks) ELSE 0,
        cpa |-> IF conversions > 0
                THEN roundDiv(spend * 100, conversions) ELSE 0,
        roas |-> IF spend > 0 THEN roundDiv(revenue * 100, spend) ELSE 0]

\* analysis.metrics of analysisAgent(dataAgent(query)): per platform for the
\* two summaries, empty when dataAgent returns the array of rows
analysisAgent(branch, data) ==
    IF branch = "rows" THEN <<>>
    ELSE LET keys == keyOrder(data, "platform", {})
         IN [i \in 1..Len(keys) |->
               [key |-> keys[i],
                value |-> platformMetrics(branch,
                    SelectSeq(data, LAMBDA row : row.platform = keys[i]))]]

\* the rule-based recommendations of optimizationAgent's catch block;
\* with no platform, roasValues[0] is undefined and reading its property
\* throws a TypeError out of the catch block
optimizationFallback(metrics) ==
    IF Len(metrics) = 0
    THEN [threw |-> TRUE,
          text |-> "Cannot read properties of undefined (reading 'platform')"]
    ELSE LET roasValues == sortByRoas(metrics)
             best == roasValues[1]
             worst == roasValues[Len(roasValues)]
         IN [threw |-> FALSE,
             text |->
                "**Performance Analysis:**\n\n"
                \o "Based on the October campaign data:\n\n"
                \o "**Key Findings:**\n"
                \o "- Best performer: " \o best.key \o " with "
                \o ratioText(best.value.roas) \o "x ROAS\n"
                \o "- Weakest performer: " \o worst.key \o " with "
                \o ratioText(worst.value.roas) \o "x ROAS\n\n"
                \o "**Recommendations:**\n"
                \o "1. **Reallocate budget:** Shift 20% of " \o worst.key
                \o " budget to " \o best.key \o "\n"
                \o "2. **Optimize targeting:** Focus " \o best.key
                \o " on high-performing demographics\n"
                \o "3. **Creative refresh:** Update " \o worst.key
                \o " creative assets to improve engagement\n"
                \o "4. **Scale winners:** Increase " \o best.key
                \o " budget by 15% to capture more conversions\n"]

(***************************************************************************)
(* The caller-facing result.  keys is the set of properties of the JSON    *)
(* object, nulls the properties whose value is null; a property outside    *)
(* keys, or inside nulls, holds the empty value of its type here.          *)
(***************************************************************************)
ValidationFailedAnswer ==
    "I had trouble creating a safe query for that question. Could you try asking in a different way?"
ExecutionFailedAnswer ==
    "I ran into an issue retrieving that data. Could you try rephrasing your question? For example: 'Which platform has the best ROAS?' or 'Show me conversion rates by age group'"
UnexpectedErrorAnswer ==
    "I encountered an unexpected error. Please try again or rephrase your question."
ServerErrorMessage ==
    "Sorry, I encountered an error processing your request. Please try again."
GeneratorErrorText ==
    "I had trouble understanding that question. Could you rephrase it?"
ErrorSteps == <<"Understanding request...", "Encountered an error">>

EmptyResponse ==
    [status |-> 200, keys |-> {}, nulls |-> {}, success |-> FALSE,
     sql |-> "", answer |-> "", visualization |-> NullViz,
     analysisSteps |-> <<>>, goal |-> "", message |-> "", metrics |-> <<>>,
     error |-> ""]

\* the name of the fourth property: visualization, or metrics in v3
fourth(b) == IF b = "v3" THEN "metrics" ELSE "visualization"
\* analysisSteps is a property of the results of v4 only
withSteps(b, ks) == IF b = "v4" THEN ks \cup {"analysisSteps"} ELSE ks

\* the conversational response of the generator, returned as the answer
nonQueryResponse_withSql(b, content, steps) ==
    [EmptyResponse EXCEPT
        !.keys = withSteps(b, {"success", "sql", "answer", fourth(b)}),
        !.nulls = {fourth(b)},
        !.success = TRUE, !.sql = content, !.answer = content,
        !.analysisSteps = steps]
nonQueryResponse(b, content, steps) ==
    [EmptyResponse EXCEPT
        !.keys = withSteps(b, {"success", "sql", "answer", fourth(b)}),
        !.nulls = {"sql", fourth(b)},
        !.success = TRUE, !.answer = content, !.analysisSteps = steps]

\* validation failure and execution failure
failedResponse(b, sql, answer, steps) ==
    [EmptyResponse EXCEPT
        !.keys = withSteps(b, {"success", "sql", "answer", fourth(b)}),
        !.nulls = {fourth(b)},
        !.success = FALSE, !.sql = sql, !.answer = answer,
        !.analysisSteps = steps]

\* the outer catch of the handler
unexpectedResponse(b, caught) ==
    IF b = "v1"
    THEN [EmptyResponse EXCEPT
            !.status = 500, !.keys = {"message", "error"},
            !.message = ServerErrorMessage, !.error = caught]
    ELSE [EmptyResponse EXCEPT
            !.keys = withSteps(b, {"success", "sql", "answer", fourth(b)}),
            !.nulls = {"sql", fourth(b)},
            !.success = FALSE, !.answer = UnexpectedErrorAnswer,
            !.analysisSteps = IF b = "v4" THEN ErrorSteps ELSE <<>>]

\* the result of a completed request (generations v2, v3, v4)
completeResponse_noChart(b, sql, answer, result, steps, goal) ==
    [EmptyResponse EXCEPT
        !.keys = {"success", "sql", "answer", fourth(b)},
        !.nulls = {fourth(b)},
        !.success = TRUE, !.sql = sql, !.answer = answer,
        !.analysisSteps = steps, !.goal = IF b = "v4" THEN goal ELSE ""]
completeResponse(b, sql, answer, result, steps, goal) ==
    IF b = "v3"
    THEN [EmptyResponse EXCEPT
            !.keys = {"success", "sql", "answer", "metrics"},
            !.success = TRUE, !.sql = sql, !.answer = answer,
            !.metrics = result.rawData.groups]
    ELSE [EmptyResponse EXCEPT
            !.keys = IF b = "v4"
                     THEN {"success", "sql", "answer", "visualization",
                           "analysisSteps", "goal"}
                     ELSE {"success", "sql", "answer", "visualization"},
            !.nulls = IF result.visualization.isNull THEN {"visualization"}
                      ELSE {},
            !.success = TRUE, !.sql = sql, !.answer = answer,
            !.visualization = result.visualization,
            !.analysisSteps = steps,
            !.goal = IF b = "v4" THEN goal ELSE ""]

\* the result of a completed request (generation v1)
completeResponse_v1(recommendations, metrics) ==
    [EmptyResponse EXCEPT
        !.keys = {"message", "metrics"},
        !.message = recommendations, !.metrics = metrics]

(***************************************************************************)
(* The /chat handler: what it computes before the first suspension         *)
(***************************************************************************)
\* conversationHistory[i].goal is set: the property exists and is not empty
hasGoal(msg) == msg.goal # Undefined /\ msg.goal # Null /\ msg.goal # ""

\* Extract previous goal from conversation history: newest to oldest
\* variant: the history is scanned from the oldest entry on
previousGoalOf_oldest(history) ==
    LET with == {i \in 1..Len(history) : hasGoal(history[i])}
    IN IF with = {} THEN Null
       ELSE history[CHOOSE i \in with : \A j \in with : i <= j].goal

previousGoalOf(history) ==
    LET with == {i \in 1..Len(history) : hasGoal(history[i])}
    IN IF with = {} THEN Null
       ELSE history[CHOOSE i \in with : \A j \in with : i >= j].goal

RECURSIVE historyText(_)
historyText(history) ==
    IF Len(history) = 0 THEN ""
    ELSE (IF history[1].role = "user" THEN "User" ELSE "Assistant")
            \o ": " \o history[1].content \o "\n"
            \o historyText(Tail(history))

\* Build conversation context, with the previous goal added
contextStringOf(history) ==
    (IF Len(history) > 0
     THEN "Previous conversation:\n" \o historyText(history) \o "\n"
     ELSE "")
    \o (IF previousGoalOf(history) # Null
        THEN "Previous query goal: " \o previousGoalOf(history) \o "\n\n"
        ELSE "")

\* the word captured by sql.match(/GROUP BY\s+(\w+)/i), or Null
groupByMatch(sql) ==
    LET wordAt(i) ==
            LET ws == span(sql, i + 8, WhiteSpace, TRUE)
                n == span(sql, i + 8 + ws, WordChars, TRUE)
            IN IF /\ toUpperCase(slice(sql, i, i + 7)) = "GROUP BY"
                  /\ ws >= 1 /\ n >= 1
               THEN SubSeq(sql, i + 8 + ws, i + 8 + ws + n - 1)
               ELSE Null
        hits == {i \in occurrences(toUpperCase(sql), "GROUP BY") :
                    wordAt(i) # Null}
    IN IF hits = {} THEN Null
       ELSE wordAt(CHOOSE i \in hits : \A j \in hits : i <= j)

\* the analysis steps that the v4 handler derives from the query text
\* (the pictograms that open each step are left out)
sqlSteps(sql) ==
    LET metrics ==
            (IF includes(sql, "SUM(revenue) / NULLIF(SUM(spend)")
             THEN <<"ROAS">> ELSE <<>>)
            \o (IF includes(sql, "SUM(clicks)") /\ includes(sql, "impressions")
                THEN <<"CTR">> ELSE <<>>)
            \o (IF includes(sql, "SUM(spend) / NULLIF(SUM(conversions)")
                THEN <<"CPA">> ELSE <<>>)
            \o (IF includes(sql, "views_100")
                THEN <<"Video Completion Rate">> ELSE <<>>)
    IN (IF includes(sql, "video_ad_performance")
        THEN <<"Accessing: video_ad_performance table">> ELSE <<>>)
       \o (IF Len(metrics) > 0
           THEN <<"Calculating: " \o joinComma(metrics)>> ELSE <<>>)
       \o (IF groupByMatch(sql) # Null
           THEN <<"Comparing by: " \o groupByMatch(sql)>> ELSE <<>>)

\* Object.keys(result.rawData).length: the ten counters and seven metrics
\* of a single aggregate, or the groups of a comparison
segmentCount(rawData) ==
    IF rawData.kind = "single" THEN Cardinality(Counters) + 7
    ELSE Len(rawData.groups)

(***************************************************************************)
(* Bounds and inputs                                                       *)
(***************************************************************************)
MaxHistory == 2
MaxRows == 3

\* the server keeps nothing between two requests: one request in flight
\* shows everything a request can do
Requests == {1}

\* the requests of the interleaving scenario: a second request is received
\* while the first one is suspended at an await
Clients == {1, 2}

UnitConcurrent == [fn |-> "concurrent", done |-> TRUE]

\* the requests that are received in the scenario at hand
Active == IF unit.fn = "concurrent" THEN Clients ELSE Requests

\* the inputs offered in the scenario at hand: all of them for one request,
\* a few of them for two interleaved ones
Offered(all, few) == IF unit.fn = "concurrent" THEN few ELSE all
Builds == {"v1", "v2", "v3", "v4"}

Questions ==
    {"Which platform has the best ROAS?",
     "How much for the best one?",
     "Should I invest more? Give me a cross channel summary",
     "Which platform had the best ROAS in the West?"}

HistoryEntries ==
    {[role |-> "user", content |-> "Who reaches most?", goal |-> Undefined],
     [role |-> "assistant", content |-> "YouTube.", goal |-> "AWARENESS"],
     [role |-> "assistant", content |-> "TikTok.", goal |-> "ENGAGEMENT"]}

Histories ==
    UNION {[1..n -> HistoryEntries] : n \in 0..MaxHistory}

\* what the model behind queryGeneratorAgent may answer
GeneratorResponses ==
    {"GOAL: CONVERSION\nSQL: SELECT platform, SUM(revenue) / NULLIF(SUM(spend), 0) AS roas FROM video_ad_performance WHERE report_month = '2025-10-01' GROUP BY platform",
     "GOAL: AWARENESS\nSQL: SELECT SUM(spend) FROM video_ad_performance WHERE platform = 'TikTok';",
     "GOAL: ENGAGEMENT\nSQL: SELECT SUM(clicks) FROM video_ad_performance WHERE region IN ('West', 'South') LIMIT 20",
     "GOAL: [AWARENESS]\nSQL: SELECT SUM(impressions) FROM video_ad_performance",
     "GOAL:\nSQL: SELECT SUM(spend) FROM video_ad_performance WHERE gender = 'male'",
     "GOAL: REACH\nSQL: SELECT SUM(impressions) FROM video_ad_performance",
     "Sure.\nGOAL: CONVERSION\nSQL: SELECT * FROM video_ad_performance; SELECT spend FROM video_ad_performance",
     "The GOAL: line and the SQL: line are missing, please select a metric.",
     "SELECT SUM(spend) FROM video_ad_performance",
     "SELECT * FROM video_ad_performance; DELETE FROM video_ad_performance",
     "SELECT * FROM video_ad_performance; SELECT 1 FROM video_ad_performance",
     "SELECT SUM(spend) FROM video_ad_performance;;",
     "SELECT * FROM users",
     "I don't have Twitter data in the system.",
     "GOAL: AWARENESS\nSQL: N/A - the data covers October 2025 only.",
     "Please select a platform first.",
     "DROP TABLE video_ad_performance",
     "  SELECT region, SUM(spend) FROM video_ad_performance WHERE platform = 'TikTok' GROUP BY region ;  \n",
     "SELECT SUM(spend) FROM video_ad_performance GROUP BY campaign",
     "select platform, SUM(clicks) from video_ad_performance group by platform"}

\* what the model behind the answer renderer may answer
RendererResponses == {"TikTok leads with **8x** ROAS.\n"}

\* the inputs and the external responses of the interleaving scenario
ConcurrentQuestions ==
    {"Which platform has the best ROAS?", "How much for the best one?"}

ConcurrentHistories ==
    {<<>>,
     <<[role |-> "assistant", content |-> "YouTube.", goal |-> "AWARENESS"]>>}

ConcurrentResponses ==
    {"GOAL: AWARENESS\nSQL: SELECT SUM(spend) FROM video_ad_performance WHERE platform = 'TikTok';",
     "GOAL: ENGAGEMENT\nSQL: SELECT SUM(clicks) FROM video_ad_performance WHERE region IN ('West', 'South') LIMIT 20",
     "I don't have Twitter data in the system."}

ConcurrentAnswers ==
    {"TikTok leads with **8x** ROAS.\n", "Spend is **$100**."}

\* the messages of the errors that the collaborators may raise
ErrorMessages ==
    {"connect ECONNREFUSED 10.0.0.7:5432", "Incorrect API key provided: sk-a1"}

TableRows ==
    <<[platform |-> "TikTok", region |-> "West", age_group |-> "18-24",
       gender |-> "male", spend |-> 100, impressions |-> 1000, clicks |-> 25,
       conversions |-> 5, revenue |-> 850, video_starts |-> 400,
       views_3s |-> 300, views_25 |-> 200, views_50 |-> 100,
       views_100 |-> 50, nulls |-> {}],
      [platform |-> "YouTube", region |-> "South", age_group |-> "25-34",
       gender |-> "female", spend |-> 200, impressions |-> 4000,
       clicks |-> 40, conversions |-> 0, revenue |-> 500, video_starts |-> 0,
       views_3s |-> 0, views_25 |-> 0, views_50 |-> 0, views_100 |-> 0,
       nulls |-> {"views_3s", "conversions"}],
      [platform |-> "TikTok", region |-> "Northeast", age_group |-> "18-24",
       gender |-> "female", spend |-> 0, impressions |-> 0, clicks |-> 0,
       conversions |-> 0, revenue |-> 0, video_starts |-> 0, views_3s |-> 0,
       views_25 |-> 0, views_50 |-> 0, views_100 |-> 0,
       nulls |-> {"spend", "revenue"}],
      [platform |-> "Instagram", region |-> "West", age_group |-> "35-44",
       gender |-> "unknown", spend |-> 300, impressions |-> 9000,
       clicks |-> 100, conversions |-> 12, revenue |-> 2850,
       video_starts |-> 1000, views_3s |-> 700, views_25 |-> 500,
       views_50 |-> 300, views_100 |-> 125, nulls |-> {}],
      [platform |-> "YouTube", region |-> "West", age_group |-> "18-24",
       gender |-> "male", spend |-> 50, impressions |-> 700, clicks |-> 3,
       conversions |-> 1, revenue |-> 75, video_starts |-> 90,
       views_3s |-> 80, views_25 |-> 60, views_50 |-> 40, views_100 |-> 30,
       nulls |-> {}]>>

\* what the record source may return: a run of rows of the table
DataSets ==
    {SubSeq(TableRows, w[1], w[1] + w[2] - 1) :
        w \in {v \in (1..Len(TableRows)) \X (0..MaxRows) :
                    v[1] + v[2] - 1 <= Len(TableRows)}}

ConcurrentDataSets == {d \in DataSets : Len(d) = MaxRows}

(***************************************************************************)
(* State                                                                   *)
(***************************************************************************)
NoQueryResult == [isSQL |-> FALSE, content |-> "", goal |-> Undefined]

NoRendererInput ==
    [userQuestion |-> "", currentQuestion |-> "", contextString |-> "",
     sql |-> "", goal |-> Undefined, isStrategy |-> FALSE,
     data |-> rawSingle(aggregateRows(<<>>))]

IdleCtx ==
    [contextString |-> "", previousGoal |-> Null, generatorInput |-> "",
     response |-> "", queryResult |-> NoQueryResult, sql |-> "",
     validated |-> "",
     validation |-> [valid |-> FALSE, error |-> Undefined],
     analysisSteps |-> <<>>, branch |-> "", fetched |-> FALSE,
     data |-> <<>>, shape |-> [type |-> Null, dimension |-> Null],
     result |-> NoResult, metrics |-> <<>>,
     rendererInput |-> NoRendererInput, answerText |-> "", caught |-> "",
     catchSite |-> ""]

IdleRequest == [message |-> "", conversationHistory |-> <<>>]

Init ==
    /\ build \in Builds
    /\ pc = [r \in Clients |-> "idle"]
    /\ req = [r \in Clients |-> IdleRequest]
    /\ ctx = [r \in Clients |-> IdleCtx]
    /\ calls = [r \in Clients |-> <<>>]
    /\ responses = [r \in Clients |-> <<>>]
    /\ unit = UnitIdle

\* res.json(result): the result is sent and the handler returns
Respond_lost(r, result) ==
    /\ responses' = responses
    /\ pc' = [pc EXCEPT ![r] = "done"]
Respond(r, result) ==
    /\ responses' = [responses EXCEPT ![r] = Append(@, result)]
    /\ pc' = [pc EXCEPT ![r] = "done"]

(***************************************************************************)
(* POST /chat arrives: the handler runs up to its first await              *)
(***************************************************************************)
Receive(r) ==
    /\ pc[r] = "idle"
    /\ \E message \in Offered(Questions, ConcurrentQuestions),
          history \in IF build = "v4"
                      THEN Offered(Histories, ConcurrentHistories)
                      ELSE {<<>>} :
        /\ req' = [req EXCEPT ![r] =
                    [message |-> message, conversationHistory |-> history]]
        /\ IF build = "v1"
           THEN \* dataAgent(message) awaits the store
                /\ ctx' = [ctx EXCEPT ![r].branch = dataAgentBranch(message)]
                /\ calls' = [calls EXCEPT ![r] = Append(@, "source")]
                /\ pc' = [pc EXCEPT ![r] = "fetching"]
           ELSE \* queryGeneratorAgent(...) awaits the model
                /\ ctx' = [ctx EXCEPT
                     ![r].contextString =
                        IF build = "v4" THEN contextStringOf(history) ELSE "",
                     ![r].previousGoal =
                        IF build = "v4" THEN previousGoalOf(history) ELSE Null,
                     ![r].generatorInput =
                        IF build = "v4"
                        THEN contextStringOf(history) \o "Current question: "
                                \o message
                        ELSE message,
                     ![r].analysisSteps =
                        IF build = "v4"
                        THEN <<"User is asking: \"" \o message \o "\"",
                               "Analyzing what data is needed...">>
                        ELSE <<>>]
                /\ calls' = [calls EXCEPT ![r] = Append(@, "generator")]
                /\ pc' = [pc EXCEPT ![r] = "generating"]
    /\ UNCHANGED <<build, responses, unit>>

(***************************************************************************)
(* The query generator answers (generations v2, v3, v4): the handler       *)
(* classifies the response, cleans and validates the query text and, if    *)
(* it is valid, starts executeAndAggregate, which awaits the store         *)
(***************************************************************************)
GeneratorReturns(r) ==
    /\ pc[r] = "generating"
    /\ \E raw \in Offered(GeneratorResponses, ConcurrentResponses) :
       \* callLLM returns the trimmed content
       \E queryResult \in {IF build = "v4" THEN queryGeneratorAgent(trim(raw))
                            ELSE queryGeneratorAgent_v2(trim(raw))} :
       \* v3 keeps the raw text in sql and validates the cleaned copy
       \E cleaned \in {trim(stripTrailingSemicolon(queryResult.content))} :
       \E validation \in {IF build = "v3" THEN validateSQL_v3(cleaned)
                           ELSE validateSQL(cleaned)} :
        LET sql == IF build = "v3" THEN queryResult.content ELSE cleaned
            steps == IF build = "v4"
                     THEN ctx[r].analysisSteps \o sqlSteps(sql) ELSE <<>>
        IN IF ~queryResult.isSQL
           THEN /\ ctx' = [ctx EXCEPT ![r].response = trim(raw),
                                      ![r].queryResult = queryResult]
                /\ UNCHANGED calls
                /\ Respond(r, nonQueryResponse(build, queryResult.content,
                                               ctx[r].analysisSteps))
           ELSE IF ~validation.valid
           THEN /\ ctx' = [ctx EXCEPT ![r].response = trim(raw),
                                      ![r].queryResult = queryResult,
                                      ![r].sql = sql,
                                      ![r].validated = cleaned,
                                      ![r].validation = validation,
                                      ![r].analysisSteps = steps]
                /\ calls' = [calls EXCEPT ![r] = Append(@, "validator")]
                /\ Respond(r, failedResponse(build, sql,
                                             ValidationFailedAnswer, steps))
           ELSE /\ ctx' = [ctx EXCEPT ![r].response = trim(raw),
                                      ![r].queryResult = queryResult,
                                      ![r].sql = sql,
                                      ![r].validated = cleaned,
                                      ![r].validation = validation,
                                      ![r].analysisSteps =
                                        IF build = "v4"
                                        THEN steps \o
                                          <<"Running analysis on October 2025 data...">>
                                        ELSE <<>>]
                /\ calls' = [calls EXCEPT ![r] = @ \o <<"validator", "source">>]
                /\ pc' = [pc EXCEPT ![r] = "fetching"]
                /\ UNCHANGED responses
    /\ UNCHANGED <<build, req, unit>>

\* callLLM throws inside queryGeneratorAgent: v4 rethrows the error, v2 and
\* v3 throw a new error with a fixed text; the outer catch of the handler
\* answers
GeneratorFails_retry(r) ==
    /\ pc[r] = "generating"
    /\ \E msg \in ErrorMessages :
        /\ ctx' = [ctx EXCEPT ![r].caught = msg, ![r].catchSite = "outer"]
        /\ calls' = [calls EXCEPT ![r] = Append(@, "generator")]
    /\ UNCHANGED <<build, pc, req, responses, unit>>
GeneratorFails(r) ==
    /\ pc[r] = "generating"
    /\ \E msg \in ErrorMessages :
        LET caught == IF build = "v4" THEN msg ELSE GeneratorErrorText
        IN /\ ctx' = [ctx EXCEPT ![r].caught = caught,
                                 ![r].catchSite = "outer"]
           /\ Respond(r, unexpectedResponse(build, caught))
    /\ UNCHANGED <<build, req, calls, unit>>

(***************************************************************************)
(* The record source answers: filtering and aggregation run, and the       *)
(* answer renderer is called, which awaits the model                       *)
(***************************************************************************)
\* what answerGeneratorAgent reads off its first argument: the conversation
\* context, the current question and the strategy flag
questionFraming(b, userQuestion) ==
    LET framed == /\ b = "v4"
                  /\ includes(userQuestion, "Previous conversation:")
                  /\ includes(userQuestion, "Current question:")
        currentQuestion ==
            IF framed THEN trim(splitPart1(userQuestion, "Current question:"))
            ELSE userQuestion
    IN [userQuestion |-> userQuestion,
        currentQuestion |-> currentQuestion,
        contextString |->
            IF framed THEN trim(splitPart0(userQuestion, "Current question:"))
            ELSE "",
        isStrategy |-> IF b = "v3" THEN FALSE
                       ELSE isStrategyQuery(currentQuestion)]

\* what answerGeneratorAgent hands to the model
answerInput(b, framing, rawData, sql, goal) ==
    [userQuestion |-> framing.userQuestion,
     currentQuestion |-> framing.currentQuestion,
     contextString |-> framing.contextString,
     sql |-> sql,
     goal |-> goal,
     isStrategy |-> framing.isStrategy,
     data |-> IF b = "v3" THEN rawData ELSE sortedResults(rawData)]

SourceReturns(r) ==
    /\ pc[r] = "fetching"
    /\ \E plan \in {IF build \in {"v2", "v4"} THEN queryPlan(ctx[r].sql)
                     ELSE queryPlan("")},
          plan_v3 \in {IF build = "v3" THEN queryPlan_v3(ctx[r].sql)
                        ELSE queryPlan_v3("")},
          framing \in
             {questionFraming(build,
                  IF build = "v4"
                  THEN ctx[r].contextString \o "Current question: "
                            \o req[r].message
                  ELSE req[r].message)},
          data \in Offered(DataSets, ConcurrentDataSets) :
        IF build = "v1"
        THEN \* dataAgent returns, analysisAgent runs, optimizationAgent
             \* calls the model
             LET metrics == analysisAgent(ctx[r].branch,
                                storeRows(ctx[r].branch, data))
             IN /\ ctx' = [ctx EXCEPT
                        ![r].fetched = TRUE,
                        ![r].data = storeRows(ctx[r].branch, data),
                        ![r].metrics = metrics,
                        ![r].rendererInput =
                            [NoRendererInput EXCEPT
                                !.userQuestion = req[r].message,
                                !.currentQuestion = req[r].message,
                                !.data = rawGroups(metrics)]]
                /\ calls' = [calls EXCEPT ![r] = Append(@, "renderer")]
                /\ pc' = [pc EXCEPT ![r] = "rendering"]
                /\ UNCHANGED responses
        ELSE LET result ==
                    IF build = "v4"
                    THEN executePlan(plan, ctx[r].sql, req[r].message,
                            ctx[r].queryResult.goal, data)
                    ELSE IF build = "v2"
                    THEN executePlan_v2(plan, ctx[r].sql, req[r].message,
                                        data)
                    ELSE executePlan_v3(plan_v3, data)
                 steps ==
                    IF build = "v4"
                    THEN ctx[r].analysisSteps \o
                         <<"Found: " \o ToString(segmentCount(result.rawData))
                                \o " data segments to analyze",
                           "Generating insights and recommendations...">>
                    ELSE <<>>
                 shape ==
                    IF build = "v3"
                    THEN [type |-> "comparison", dimension |-> plan_v3.dimension]
                    ELSE plan.visualization
             IN IF result.threw
                THEN \* the catch around executeAndAggregate answers
                     /\ ctx' = [ctx EXCEPT ![r].fetched = TRUE,
                                           ![r].data = data,
                                           ![r].shape = shape,
                                           ![r].caught = result.error,
                                           ![r].catchSite = "execute"]
                     /\ UNCHANGED calls
                     /\ Respond(r, failedResponse(build, ctx[r].sql,
                            ExecutionFailedAnswer, ctx[r].analysisSteps))
                ELSE /\ ctx' = [ctx EXCEPT
                            ![r].fetched = TRUE,
                            ![r].data = data,
                            ![r].shape = shape,
                            ![r].result = result,
                            ![r].analysisSteps = steps,
                            ![r].rendererInput =
                                answerInput(build, framing,
                                    result.rawData, ctx[r].sql,
                                    ctx[r].queryResult.goal)]
                     /\ calls' = [calls EXCEPT ![r] = Append(@, "renderer")]
                     /\ pc' = [pc EXCEPT ![r] = "rendering"]
                     /\ UNCHANGED responses
    /\ UNCHANGED <<build, req, unit>>

\* the store reports an error: `if (error) throw error`
SourceFails_continues(r) ==
    /\ pc[r] = "fetching"
    /\ \E msg \in ErrorMessages :
        /\ ctx' = [ctx EXCEPT ![r].caught = msg,
                              ![r].catchSite = IF build = "v1" THEN "outer"
                                               ELSE "execute"]
        /\ calls' = [calls EXCEPT ![r] = Append(@, "renderer")]
        /\ pc' = [pc EXCEPT ![r] = "rendering"]
    /\ UNCHANGED <<build, req, responses, unit>>
SourceFails(r) ==
    /\ pc[r] = "fetching"
    /\ \E msg \in ErrorMessages :
        /\ ctx' = [ctx EXCEPT ![r].caught = msg,
                              ![r].catchSite = IF build = "v1" THEN "outer"
                                               ELSE "execute"]
        /\ Respond(r, IF build = "v1" THEN unexpectedResponse(build, msg)
                      ELSE failedResponse(build, ctx[r].sql,
                               ExecutionFailedAnswer, ctx[r].analysisSteps))
    /\ UNCHANGED <<build, req, calls, unit>>

(***************************************************************************)
(* The answer renderer answers, or fails and the fallback text is used     *)
(***************************************************************************)
\* variant: the result is built from a context that all requests share (the
\* context of the first request)
RendererReturns_shared(r) ==
    /\ pc[r] = "rendering"
    /\ \E text \in Offered(RendererResponses, ConcurrentAnswers) :
        /\ ctx' = [ctx EXCEPT ![r].answerText = text]
        /\ Respond(r,
             IF build = "v1" THEN completeResponse_v1(text, ctx[1].metrics)
             ELSE completeResponse(build, ctx[1].sql, trim(text),
                    ctx[1].result,
                    ctx[1].analysisSteps \o
                        (IF ~ctx[1].result.visualization.isNull
                         THEN <<"Preparing visualization...">> ELSE <<>>),
                    ctx[1].queryResult.goal))
    /\ UNCHANGED <<build, req, calls, unit>>

RendererReturns(r) ==
    /\ pc[r] = "rendering"
    /\ \E text \in Offered(RendererResponses, ConcurrentAnswers) :
        /\ ctx' = [ctx EXCEPT ![r].answerText = text]
        /\ Respond(r,
             IF build = "v1" THEN completeResponse_v1(text, ctx[r].metrics)
             ELSE completeResponse(build, ctx[r].sql, trim(text),
                    ctx[r].result,
                    ctx[r].analysisSteps \o
                        (IF ~ctx[r].result.visualization.isNull
                         THEN <<"Preparing visualization...">> ELSE <<>>),
                    ctx[r].queryResult.goal))
    /\ UNCHANGED <<build, req, calls, unit>>

\* callLLM throws inside the renderer: its catch logs the error and returns
\* the fallback text; the fallback of v1 reads the first platform's metrics
\* and throws when there is none
RendererFails(r) ==
    /\ pc[r] = "rendering"
    /\ IF build = "v1"
       THEN \E msg \in ErrorMessages :
             LET fallback == optimizationFallback(ctx[r].metrics)
             IN IF fallback.threw
                THEN /\ ctx' = [ctx EXCEPT ![r].caught = fallback.text,
                                           ![r].catchSite = "outer"]
                     /\ Respond(r, unexpectedResponse(build, fallback.text))
                ELSE /\ ctx' = [ctx EXCEPT ![r].caught = msg,
                                           ![r].catchSite = "renderer"]
                     /\ Respond(r, completeResponse_v1(fallback.text,
                                                       ctx[r].metrics))
       ELSE /\ ctx' = [ctx EXCEPT ![r].catchSite = "renderer"]
            /\ Respond(r, completeResponse(build, ctx[r].sql,
                    IF build = "v3"
                    THEN formatDataFallback_v3(ctx[r].rendererInput.data)
                    ELSE formatDataFallback(ctx[r].rendererInput.data),
                    ctx[r].result,
                    ctx[r].analysisSteps \o
                        (IF ~ctx[r].result.visualization.isNull
                         THEN <<"Preparing visualization...">> ELSE <<>>),
                    ctx[r].queryResult.goal))
    /\ UNCHANGED <<build, req, calls, unit>>

(***************************************************************************)
(* Specifications                                                          *)
(***************************************************************************)
Next ==
    \E r \in Active :
        \/ Receive(r)
        \/ GeneratorReturns(r)
        \/ GeneratorFails(r)
        \/ SourceReturns(r)
        \/ SourceFails(r)
        \/ RendererReturns(r)
        \/ RendererFails(r)

Spec == Init /\ [][Next]_vars

\* two requests of generation v4, interleaved at their awaits
InitConcurrent ==
    /\ build = "v4"
    /\ pc = [r \in Clients |-> "idle"]
    /\ req = [r \in Clients |-> IdleRequest]
    /\ ctx = [r \in Clients |-> IdleCtx]
    /\ calls = [r \in Clients |-> <<>>]
    /\ responses = [r \in Clients |-> <<>>]
    /\ unit = UnitConcurrent

SpecConcurrent == InitConcurrent /\ [][Next]_vars

\* Every awaited call settles: the promise of the generator, of the record
\* source and of the renderer does not stay pending for ever.  The failure
\* of a call is enabled exactly while that call is pending, so weak fairness
\* for it is met as soon as the call settles either way (by an answer or by
\* an error) and is broken only by a call that never settles.
SpecLive ==
    /\ Spec
    /\ \A r \in Requests :
        /\ WF_vars(GeneratorFails(r))
        /\ WF_vars(SourceFails(r))
        /\ WF_vars(RendererFails(r))

\* the unit harness: a pure function is called on each of its inputs
\* Inputs of the unit harness for the aggregation helpers: both helpers are
\* applied to the same record set; dimension is the property to group by
\* (null when detectVisualization knew no column)
AggregateCalls ==
    {[fn |-> "aggregate", data |-> data, dimension |-> d,
      singleDone |-> FALSE, single |-> [f \in Counters |-> 0],
      groupedDone |-> FALSE, grouped |-> <<>>, done |-> FALSE] :
        data \in DataSets,
        d \in {Dimensions[i] : i \in 1..Len(Dimensions)} \cup {Null}}

Call_aggregateSingleResult ==
    /\ unit.fn = "aggregate" /\ ~unit.singleDone
    /\ unit' = [unit EXCEPT !.singleDone = TRUE,
                            !.single = aggregateSingleResult(unit.data),
                            !.done = unit.groupedDone]
    /\ UNCHANGED <<build, pc, req, ctx, calls, responses>>

Call_aggregateByDimension ==
    /\ unit.fn = "aggregate" /\ ~unit.groupedDone
    /\ unit' = [unit EXCEPT
                    !.groupedDone = TRUE,
                    !.grouped = aggregateByDimension(unit.data,
                                                     unit.dimension),
                    !.done = unit.singleDone]
    /\ UNCHANGED <<build, pc, req, ctx, calls, responses>>

\* Inputs of the unit harness for analysisAgent of generation v1: the data
\* that dataAgent hands over on the branch taken
AnalysisCalls ==
    {[fn |-> "analysisAgent", branch |-> b, data |-> storeRows(b, data),
      done |-> FALSE, ret |-> <<>>] :
        b \in {"summary", "roasWest"}, data \in DataSets}

Call_analysisAgent ==
    /\ unit.fn = "analysisAgent" /\ ~unit.done
    /\ unit' = [unit EXCEPT !.done = TRUE,
                            !.ret = analysisAgent(unit.branch, unit.data)]
    /\ UNCHANGED <<build, pc, req, ctx, calls, responses>>

\* Inputs of the unit harness for the filters of executeAndAggregate: the
\* WHERE clause has, for each dimension, no predicate or one of the
\* predicates listed for it
WherePredicates ==
    <<{"", "platform = 'TikTok'", "platform IN ('YouTube', 'Instagram')"},
      {"", "region = 'West'"},
      {"", "age_group IN ('18-24')"},
      {"", "gender in ('male', 'female')"}>>

whereText(ps) ==
    "SELECT SUM(spend) FROM video_ad_performance WHERE "
        \o "report_month = '2025-10-01'"
        \o (IF ps[4] = "" THEN "" ELSE " AND " \o ps[4])
        \o (IF ps[2] = "" THEN "" ELSE " AND " \o ps[2])
        \o (IF ps[1] = "" THEN "" ELSE " AND " \o ps[1])
        \o (IF ps[3] = "" THEN "" ELSE " AND " \o ps[3])

FilterStageCalls ==
    {[fn |-> "filterRecords", sql |-> whereText(ps), data |-> data,
      predicates |-> ps, done |-> FALSE,
      filters |-> [i \in 1..Len(Dimensions) |->
                        [isNull |-> TRUE, values |-> <<>>]],
      ret |-> <<>>] :
        ps \in WherePredicates[1] \X WherePredicates[2]
                \X WherePredicates[3] \X WherePredicates[4],
        data \in DataSets}

\* the part of executeAndAggregate between the fetch and the aggregation
Call_filterRecords ==
    /\ unit.fn = "filterRecords" /\ ~unit.done
    /\ \E plan \in {queryPlan(unit.sql)} :
          unit' = [unit EXCEPT
                     !.done = TRUE,
                     !.filters = plan.filters,
                     !.ret = applyFilters(unit.data, plan.filters, 1)]
    /\ UNCHANGED <<build, pc, req, ctx, calls, responses>>

\* Inputs of the unit harness for executeAndAggregate: the function runs
\* twice on the same query text and the same fetched records, each run with
\* its own question and goal
ExecuteQueries ==
    {"SELECT SUM(spend), SUM(revenue) FROM video_ad_performance",
     "SELECT SUM(revenue) FROM video_ad_performance WHERE platform IN ('TikTok', 'YouTube') AND region = 'West'",
     "SELECT platform, SUM(spend) FROM video_ad_performance GROUP BY platform",
     "SELECT region, SUM(clicks) FROM video_ad_performance WHERE gender IN ('male', 'female') GROUP BY region"}

PresentationInputs ==
    {[userQuestion |-> "Which platform has the best ROAS?",
      goal |-> "CONVERSION"],
     [userQuestion |-> "Where should I invest more budget?",
      goal |-> "AWARENESS"],
     [userQuestion |-> "What is the CTR and the video completion rate?",
      goal |-> "ENGAGEMENT"],
     [userQuestion |-> "How many impressions?", goal |-> Undefined]}

ExecuteCalls ==
    {[fn |-> "executeAndAggregate", sql |-> sql, data |-> data,
      inputs |-> ab, ran |-> {},
      results |-> <<NoResult, NoResult>>, done |-> FALSE] :
        sql \in ExecuteQueries, data \in DataSets,
        ab \in {p \in PresentationInputs \X PresentationInputs :
                    p[1] # p[2]}}

Call_executeAndAggregate ==
    /\ unit.fn = "executeAndAggregate"
    /\ \E i \in {1, 2} \ unit.ran :
          unit' = [unit EXCEPT
                     !.ran = @ \cup {i},
                     !.done = (unit.ran \cup {i} = {1, 2}),
                     !.results[i] =
                        IF build = "v4"
                        THEN executeAndAggregate(unit.sql,
                                unit.inputs[i].userQuestion,
                                unit.inputs[i].goal, unit.data)
                        ELSE executeAndAggregate_v2(unit.sql,
                                unit.inputs[i].userQuestion, unit.data)]
    /\ UNCHANGED <<build, pc, req, ctx, calls, responses>>

InitUnit ==
    /\ build \in {"v1", "v2", "v3", "v4"}
    /\ pc = [r \in Clients |-> "idle"]
    /\ req = [r \in Clients |-> IdleRequest]
    /\ ctx = [r \in Clients |-> IdleCtx]
    /\ calls = [r \in Clients |-> <<>>]
    /\ responses = [r \in Clients |-> <<>>]
    /\ unit \in UnitCalls \cup FilterCalls \cup GroupCalls
                \cup AggregateCalls \cup AnalysisCalls \cup MetricCalls
                \cup ExecuteCalls \cup ResponseCalls \cup FilterStageCalls
    \* analysisAgent is in v1, validateSQL in v2, v3 and v4, the other
    \* functions in v2 and v4
    /\ CASE unit.fn = "analysisAgent" -> build = "v1"
         [] unit.fn = "validateSQL" -> build \in {"v2", "v3", "v4"}
         [] unit.fn = "queryGeneratorAgent" -> build = "v4"
         [] unit.fn = "detectRequestedMetrics" ->
                build = "v4" \/ (build = "v2" /\ unit.goal = Undefined)
         [] OTHER -> build \in {"v2", "v4"}

NextUnit ==
    \/ Call_validateSQL
    \/ Call_parseFilterValues
    \/ Call_detectVisualization
    \/ Call_aggregateSingleResult
    \/ Call_aggregateByDimension
    \/ Call_analysisAgent
    \/ Call_detectRequestedMetrics
    \/ Call_executeAndAggregate
    \/ Call_queryGeneratorAgent
    \/ Call_filterRecords

SpecUnit == InitUnit /\ [][NextUnit]_vars

(***************************************************************************)
(* Properties of the Safety Validator (specification SpecUnit)             *)
(***************************************************************************)
\* C1: in generations v2 and v4, validateSQL accepts a query text if and
\* only if (a) the text begins with SELECT in any case of letters, (b) it
\* contains none of the eleven deny-listed keywords in any case of letters,
\* (c) it contains at most one ';' and (d) it contains the table name
\* video_ad_performance in any case of letters; a rejection reports the
\* reason of the first rule that fails in the order a, b, c, d;
\* "DROP TABLE video_ad_performance" is rejected by rule (a), and the
\* grouped SELECT on video_ad_performance is accepted.
C1_ValidatorRules ==
    (unit.fn = "validateSQL" /\ unit.done /\ build \in {"v2", "v4"}) =>
        LET sql == unit.sql
            upper == toUpperCase(sql)
            denied == {"DROP", "DELETE", "UPDATE", "INSERT", "ALTER", "CREATE",
                       "EXEC", "EXECUTE", "TRUNCATE", "GRANT", "REVOKE"}
            a == toUpperCase(slice(sql, 1, 6)) = "SELECT"
            b == \A k \in denied : ~includes(upper, k)
            c == Cardinality({i \in 1..Len(sql) : CharAt(sql, i) = ";"}) <= 1
            d == includes(upper, "VIDEO_AD_PERFORMANCE")
        IN /\ unit.ret.valid <=> (a /\ b /\ c /\ d)
           /\ ~a => unit.ret.error = "Only SELECT queries are allowed"
           /\ (a /\ ~b) =>
                \E k \in denied :
                    /\ includes(upper, k)
                    /\ unit.ret.error = "Dangerous keyword detected: " \o k
           /\ (a /\ b /\ ~c) => unit.ret.error = "Multiple queries not allowed"
           /\ (a /\ b /\ c /\ ~d) => unit.ret.error = "Invalid table reference"
           /\ sql = DropTableText =>
                /\ ~unit.ret.valid
                /\ unit.ret.error = "Only SELECT queries are allowed"
           /\ sql = GroupedSelectText => unit.ret.valid

\* a text that passes rules (a) and (b) and holds two ';' has been refused
\* for its terminators
C1_Witness ==
    /\ unit.fn = "validateSQL" /\ unit.done /\ build = "v4"
    /\ unit.sql = "SELECT * FROM video_ad_performance; SELECT 1;"
    /\ ~unit.ret.valid
    /\ unit.ret.error = "Multiple queries not allowed"

\* C3 (as stated): validateSQL rejects the text
\* "SELECT * FROM video_ad_performance; DELETE FROM video_ad_performance"
\* and the reason it reports is that of the multiple-statement rule.
C3_ReasonIsMultipleStatements ==
    (unit.fn = "validateSQL" /\ unit.done /\ unit.sql = StackedDeleteText) =>
        /\ ~unit.ret.valid
        /\ unit.ret.error = "Multiple queries not allowed"

\* C3 (amended): validateSQL rejects the text
\* "SELECT * FROM video_ad_performance; DELETE FROM video_ad_performance"
\* and the reason it reports is that of the deny-list, naming DELETE: the
\* deny-list is consulted before the terminators are counted, and the text
\* holds a single ';'.
C3_ReasonIsDenyList ==
    (unit.fn = "validateSQL" /\ unit.done /\ unit.sql = StackedDeleteText) =>
        /\ ~unit.ret.valid
        /\ unit.ret.error = "Dangerous keyword detected: DELETE"

C3_Witness ==
    /\ unit.fn = "validateSQL" /\ unit.done /\ build = "v4"
    /\ unit.sql = StackedDeleteText
    /\ ~unit.ret.valid

(***************************************************************************)
(* Properties of the /chat handler (specification Spec)                    *)
(***************************************************************************)
\* C2: no generated text made of two or more statements separated by ';'
\* reaches the record source: whenever the generator's query text holds
\* more than one statement, the stripping of the trailing terminator and
\* the validator end the request before executeAndAggregate is called.
C2_StackedNeverFetched ==
    \A r \in Requests :
        (build # "v1" /\ \E i \in 1..Len(calls[r]) : calls[r][i] = "source") =>
            LET text == ctx[r].queryResult.content
                cuts == {0} \cup {i \in 1..Len(text) : CharAt(text, i) = ";"}
                \* the statements: the stretches between terminators that
                \* hold something other than white space
                statements ==
                    {c \in cuts :
                        \E j \in (c + 1)..Len(text) :
                            /\ CharAt(text, j) \notin (WhiteSpace \cup {";"})
                            /\ \A k \in (c + 1)..j : CharAt(text, k) # ";"}
            IN Cardinality(statements) <= 1

\* C4: in generation v4, every valid grouped query whose record fetch
\* succeeds ends in a successful result with a comparison visualization on
\* the grouping dimension, never in a failed one; for the question "Which
\* platform has the best ROAS?" with goal CONVERSION and a grouping by
\* platform, the visualization holds one aggregate per platform present in
\* the records, each with its roas, and the selected metrics are [financial].
C4_GroupedQueryCompletes ==
    \A r \in Requests :
        (/\ build = "v4" /\ pc[r] = "done"
         /\ ctx[r].fetched /\ ctx[r].shape.type = "comparison") =>
            LET res == responses[r][1]
                viz == res.visualization
            IN /\ res.success
               /\ "visualization" \notin res.nulls
               /\ viz.type = "comparison"
               /\ viz.dimension = ctx[r].shape.dimension
               /\ (/\ req[r].message = "Which platform has the best ROAS?"
                   /\ ctx[r].queryResult.goal = "CONVERSION"
                   /\ ctx[r].shape.dimension = "platform") =>
                        /\ viz.requestedMetrics = <<"financial">>
                        /\ {viz.data[i].key : i \in 1..Len(viz.data)}
                             = {ctx[r].data[i].platform :
                                    i \in 1..Len(ctx[r].data)}
                        /\ \A i \in 1..Len(viz.data) :
                             viz.data[i].value.roas
                               = roasOf(viz.data[i].value.revenue,
                                        viz.data[i].value.spend)

\* C5: in generation v4, whatever the generator answers, the goal that
\* queryGeneratorAgent resolves, and the goal of the result, is one of
\* AWARENESS, ENGAGEMENT, CONVERSION.
C5_GoalIsOneOfThree ==
    \A r \in Requests :
        (build = "v4" /\ ctx[r].response # "") =>
            /\ ctx[r].queryResult.goal
                 \in {"AWARENESS", "ENGAGEMENT", "CONVERSION"}
            /\ (pc[r] = "done" /\ "goal" \in responses[r][1].keys) =>
                 responses[r][1].goal
                   \in {"AWARENESS", "ENGAGEMENT", "CONVERSION"}

\* C6: in generation v4, when the question is the follow-up "How much for
\* the best one?" (a follow-up marker, no goal keyword) and the history
\* supplies a previous goal, the goal resolved for the turn is the previous
\* goal.
C6_FollowUpKeepsPreviousGoal ==
    \A r \in Requests :
        (/\ build = "v4" /\ ctx[r].response # ""
         /\ req[r].message = "How much for the best one?"
         /\ ctx[r].previousGoal # Null) =>
            ctx[r].queryResult.goal = ctx[r].previousGoal

\* C7: in generations v2 and v4, once validateSQL has rejected the query
\* text the request is over, with the generator and the validator as the
\* only collaborators called; once the catch around executeAndAggregate has
\* caught an error the request is over and the renderer has not been
\* called; either way exactly one result was sent, with status 200,
\* success false, a null visualization and the fixed answer of the case.
C7_FailureIsTerminal ==
    \A r \in Requests :
        build \in {"v2", "v4"} =>
            LET rejected == /\ \E i \in 1..Len(calls[r]) :
                                    calls[r][i] = "validator"
                            /\ ~ctx[r].validation.valid
                executionFailed == ctx[r].catchSite = "execute"
                failedWith(answer) ==
                    /\ pc[r] = "done"
                    /\ Len(responses[r]) = 1
                    /\ responses[r][1].status = 200
                    /\ "success" \in responses[r][1].keys
                    /\ ~responses[r][1].success
                    /\ "visualization" \in responses[r][1].keys
                    /\ "visualization" \in responses[r][1].nulls
                    /\ "answer" \notin responses[r][1].nulls
                    /\ responses[r][1].answer = answer
            IN /\ rejected =>
                    /\ calls[r] = <<"generator", "validator">>
                    /\ failedWith(ValidationFailedAnswer)
               /\ executionFailed =>
                    /\ calls[r] = <<"generator", "validator", "source">>
                    /\ failedWith(ExecutionFailedAnswer)

\* the record source has raised an error and the request has ended
C7_Witness ==
    /\ build = "v4" /\ pc[1] = "done"
    /\ ctx[1].catchSite = "execute"
    /\ ctx[1].caught \in ErrorMessages
    /\ ~responses[1][1].success

\* C8: in every generation, a result that reports a failure holds, in each
\* of its text properties, null, a fixed message or the generated query
\* text, and the message of the caught error is in none of its properties.
C8_NoRawErrorText ==
    \A r \in Requests :
        (/\ pc[r] = "done"
         /\ \/ responses[r][1].status # 200
            \/ ("success" \in responses[r][1].keys /\ ~responses[r][1].success)) =>
            LET res == responses[r][1]
                fixed == {ValidationFailedAnswer, ExecutionFailedAnswer,
                          UnexpectedErrorAnswer, ServerErrorMessage}
                present == res.keys \ res.nulls
            IN /\ \A f \in {"answer", "message", "error"} \cap present :
                    res[f] \in fixed
               /\ "sql" \in present => res.sql = ctx[r].sql
               /\ ctx[r].caught # "" =>
                    /\ \A f \in {"answer", "message", "error", "sql"} :
                            res[f] # ctx[r].caught
                    /\ \A i \in 1..Len(res.analysisSteps) :
                            res.analysisSteps[i] # ctx[r].caught

\* C9: in generations v2 and v4, once the generator's response has been
\* classified as not a query the request is over, the generator is the only
\* collaborator called, and the one result sent has success true, sql null,
\* visualization null and, as its answer, the generator's text (the whole
\* trimmed response, or what follows "SQL:" when the response of v4 carries
\* the GOAL: and SQL: markers).
C9_NonQueryShortCircuits ==
    \A r \in Requests :
        (/\ build \in {"v2", "v4"}
         /\ ctx[r].response # "" /\ ~ctx[r].queryResult.isSQL) =>
            /\ pc[r] = "done"
            /\ calls[r] = <<"generator">>
            /\ Len(responses[r]) = 1
            /\ LET res == responses[r][1]
                   marked == /\ build = "v4"
                             /\ includes(ctx[r].response, "GOAL:")
                             /\ includes(ctx[r].response, "SQL:")
               IN /\ res.status = 200
                  /\ {"success", "sql", "answer", "visualization"}
                        \subseteq res.keys
                  /\ res.success
                  /\ "sql" \in res.nulls
                  /\ "visualization" \in res.nulls
                  /\ "answer" \notin res.nulls
                  /\ res.answer = ctx[r].queryResult.content
                  /\ IF marked
                     THEN res.answer =
                            trim(slice(ctx[r].response,
                                       indexOf(ctx[r].response, "SQL:") + 4,
                                       Len(ctx[r].response)))
                     ELSE res.answer = ctx[r].response

\* the generator has answered in plain words and the request has ended
C9_Witness ==
    /\ build = "v4" /\ pc[1] = "done"
    /\ ctx[1].response = "I don't have Twitter data in the system."
    /\ ~ctx[1].queryResult.isSQL
    /\ responses[1][1].answer = "I don't have Twitter data in the system."

\* C10: in generations v2, v3 and v4, in every step of a request the
\* collaborators called so far are the generator, the validator, the record
\* source and the renderer, each at most once and in that order; the record
\* source is called only after validateSQL accepted the text; the goal,
\* once resolved, is never resolved again; and after the result is sent
\* nothing more is called or sent.
C10_SequentialNoRetry ==
    [][\A r \in Requests :
        build # "v1" =>
            LET order == <<"generator", "validator", "source", "renderer">>
                rank(c) == CHOOSE k \in 1..Len(order) : order[k] = c
                log == calls'[r]
            IN /\ \A i \in 1..Len(log) : \E k \in 1..Len(order) : order[k] = log[i]
               /\ \A i, j \in 1..Len(log) : i < j => rank(log[i]) < rank(log[j])
               /\ (\E i \in 1..Len(log) : log[i] = "source") =>
                    /\ ctx'[r].validation.valid
                    /\ \E i \in 1..Len(log) : log[i] = "validator"
               /\ ctx[r].response # "" =>
                    ctx'[r].queryResult = ctx[r].queryResult
               /\ pc[r] = "done" =>
                    /\ pc'[r] = "done"
                    /\ calls'[r] = calls[r]
                    /\ responses'[r] = responses[r]
               /\ Len(responses'[r]) <= 1
      ]_vars

\* a request went through all four collaborators and has ended
C10_Witness ==
    /\ build = "v4" /\ pc[1] = "done"
    /\ calls[1] = <<"generator", "validator", "source", "renderer">>
    /\ responses[1][1].success

\* C11: when every awaited call settles, a request that has arrived ends:
\* it reaches the end of the handler with exactly one result sent, which is
\* a completed one, a conversational one or a failed one; at no time have
\* two results been sent, and a request that has ended has sent one.
C11_RequestTerminates ==
    \A r \in Requests :
        /\ [](Len(responses[r]) <= 1)
        /\ [](pc[r] = "done" => Len(responses[r]) = 1)
        /\ (pc[r] # "idle") ~>
              (/\ pc[r] = "done"
               /\ Len(responses[r]) = 1
               /\ LET res == responses[r][1]
                      failed == \/ res.status # 200
                                \/ ("success" \in res.keys /\ ~res.success)
                      nonQuery == /\ res.status = 200 /\ res.success
                                  /\ "sql" \in res.nulls
                      complete == /\ res.status = 200
                                  /\ "sql" \notin res.nulls
                                  /\ \/ res.success
                                     \/ res.keys = {"message", "metrics"}
                  IN \/ failed /\ ~nonQuery /\ ~complete
                     \/ nonQuery /\ ~failed /\ ~complete
                     \/ complete /\ ~failed /\ ~nonQuery)

\* a request whose record source failed has ended with its one result
C11_Witness ==
    /\ build = "v2" /\ pc[1] = "done"
    /\ calls[1] = <<"generator", "validator", "source">>
    /\ Len(responses[1]) = 1
    /\ ~responses[1][1].success

\* C12: in generations v2 and v4, when the renderer's call fails after a
\* successful aggregation the request ends with success true, and the
\* answer is the templated summary that lists, for the aggregate of a
\* single-shape result and for each aggregate of a comparison-shape result,
\* its ROAS, spend, revenue and CTR (and the segment name of each group).
C12_FallbackListsAggregates ==
    \A r \in Requests :
        (/\ build \in {"v2", "v4"} /\ pc[r] = "done"
         /\ ctx[r].catchSite = "renderer") =>
            LET res == responses[r][1]
                results == ctx[r].rendererInput.data
                lists(agg) ==
                    /\ includes(res.answer,
                                "ROAS: **" \o ToString(agg.roas) \o "x**")
                    /\ includes(res.answer, "Spend: **$")
                    /\ includes(res.answer, "Revenue: **$")
                    /\ includes(res.answer, "CTR: **")
            IN /\ res.status = 200 /\ res.success
               /\ "answer" \notin res.nulls
               /\ startsWith(res.answer, "Here's what I found:")
               /\ IF results.kind = "single"
                  THEN lists(results.single)
                  ELSE \A i \in 1..Len(results.groups) :
                          /\ includes(res.answer,
                                "**" \o results.groups[i].key \o "**")
                          /\ lists(results.groups[i].value)

\* C13: in generation v4, every result sent after the generator answered
\* (completed, conversational or failed) has the property goal, holding the
\* goal that queryGeneratorAgent resolved.
C13_ResultCarriesGoal ==
    \A r \in Requests :
        (build = "v4" /\ pc[r] = "done" /\ ctx[r].response # "") =>
            /\ "goal" \in responses[r][1].keys
            /\ "goal" \notin responses[r][1].nulls
            /\ responses[r][1].goal = ctx[r].queryResult.goal

C15_FilterValues ==
    (unit.fn = "parseFilterValues" /\ unit.done) =>
        /\ unit.form = "in" =>
             unit.ret = [isNull |-> FALSE, values |-> unit.literals]
        /\ unit.form = "eq" =>
             unit.ret = [isNull |-> FALSE, values |-> <<unit.literals[1]>>]
        /\ unit.form = "none" =>
             /\ unit.ret.isNull
             /\ unit.ret # [isNull |-> FALSE, values |-> <<>>]

\* the inclusion list written in lower case with blanks, on PLATFORM
C15_Witness ==
    /\ unit.fn = "parseFilterValues" /\ unit.done
    /\ unit.form = "in" /\ unit.columnName = "platform"
    /\ includes(unit.sql, "PLATFORM in ( 'YouTube' , 'TikTok' , 'Instagram' )")
    /\ unit.ret.values = <<"YouTube", "TikTok", "Instagram">>

C18_NullSafeDivide ==
    LET Safe(a) ==
            /\ \A m \in {"roas", "ctr", "cpa", "conversionRate",
                         "completionRate", "video_completion_rate", "cpm"} :
                    a[m] \in Nat
            /\ a.spend = 0 => a.roas = 0
            /\ a.impressions = 0 => a.ctr = 0 /\ a.cpm = 0
            /\ a.conversions = 0 => a.cpa = 0
            /\ a.clicks = 0 => a.conversionRate = 0
            /\ a.video_starts = 0 =>
                   a.completionRate = 0 /\ a.video_completion_rate = 0
    IN (unit.fn = "aggregate" /\ unit.done) =>
          /\ Safe(unit.single)
          /\ \A i \in 1..Len(unit.grouped) : Safe(unit.grouped[i].value)

\* the empty record set, and a group with no spend next to one with spend
C18_Witness ==
    /\ unit.fn = "aggregate" /\ unit.done
    /\ \/ /\ Len(unit.data) = 0
          /\ unit.single.impressions = 0 /\ unit.single.ctr = 0
       \/ /\ Len(unit.grouped) >= 2
          /\ \E i, j \in 1..Len(unit.grouped) :
                /\ unit.grouped[i].value.spend = 0
                /\ unit.grouped[i].value.roas = 0
                /\ unit.grouped[j].value.roas > 0

C20_AsymmetricRounding ==
    LET Abs(x) == IF x < 0 THEN 0 - x ELSE x
        \* h hundredths is num / den rounded to a whole number
        Whole(h, num, den) ==
            h % 100 = 0 /\ 2 * Abs(h * den - 100 * num) <= 100 * den
        \* h hundredths is num / den rounded to two decimals
        Hundredths(h, num, den) == 2 * Abs(h * den - 100 * num) <= den
        Ratios(a) ==
            /\ a.impressions > 0 =>
                 Hundredths(a.ctr, a.clicks * 100, a.impressions)
            /\ a.conversions > 0 => Hundredths(a.cpa, a.spend, a.conversions)
            /\ a.clicks > 0 =>
                 Hundredths(a.conversionRate, a.conversions * 100, a.clicks)
    IN /\ (unit.fn = "aggregate" /\ unit.done) =>
            \A a \in {unit.single}
                     \cup {unit.grouped[i].value :
                                i \in 1..Len(unit.grouped)} :
                /\ a.spend > 0 => Whole(100 * a.roas, a.revenue, a.spend)
                /\ Ratios(a)
                /\ a.impressions > 0 =>
                     Hundredths(a.cpm, a.spend * 1000, a.impressions)
                /\ a.video_starts > 0 =>
                     Hundredths(a.completionRate, a.views_100 * 100,
                                a.video_starts)
       /\ (unit.fn = "analysisAgent" /\ unit.done) =>
            \A i \in 1..Len(unit.ret) :
                LET a == unit.ret[i].value
                IN /\ a.spend > 0 => Whole(a.roas, a.revenue, a.spend)
                   /\ Ratios(a)

(***************************************************************************)
(* Properties of the Metric Selector (specification SpecUnit)              *)
(***************************************************************************)
\* C21: detectRequestedMetrics of generation v4 puts the goal before all
\* keywords: for every query text and question it returns [impressions,
\* cpm] for the goal AWARENESS, [ctr] for ENGAGEMENT and [financial] for
\* CONVERSION; for every input, an absent or unknown goal included, it
\* returns one metric set that is not empty.
C21_GoalTakesPriority ==
    (unit.fn = "detectRequestedMetrics" /\ unit.done /\ build = "v4") =>
        /\ unit.goal = "AWARENESS" => unit.ret = <<"impressions", "cpm">>
        /\ unit.goal = "ENGAGEMENT" => unit.ret = <<"ctr">>
        /\ unit.goal = "CONVERSION" => unit.ret = <<"financial">>
        /\ Len(unit.ret) >= 1

\* the goal AWARENESS with a question and a query text about ROAS
C21_Witness ==
    /\ unit.fn = "detectRequestedMetrics" /\ unit.done /\ build = "v4"
    /\ unit.goal = "AWARENESS"
    /\ 13 \in unit.rules /\ includes(unit.userQuestion, "ROAS")
    /\ includes(unit.sql, "roas")
    /\ unit.ret = <<"impressions", "cpm">>

\* C25: when no goal rule applies (generation v2, and generation v4 with an
\* absent or unknown goal), detectRequestedMetrics returns the metric set of
\* the first rule that matches, in the order: completion rate, video
\* funnel, video retention, CTR, conversion rate, CPA, CPM, bare
\* conversions, bare clicks, impressions, bare spend, bare revenue, ROAS,
\* strategy language, performance language (video_completion_rate when the
\* question mentions video, else financial), and [financial] when no rule
\* matches.
C25_FirstMatchingRuleWins ==
    (/\ unit.fn = "detectRequestedMetrics" /\ unit.done
     /\ unit.goal \notin {"AWARENESS", "ENGAGEMENT", "CONVERSION"}
            \/ build = "v2") =>
        LET first == IF unit.rules = {} THEN 16
                     ELSE CHOOSE k \in unit.rules :
                                \A j \in unit.rules : k <= j
            sets == <<"video_completion_rate", "video_funnel",
                      "video_retention", "ctr", "conversion_rate", "cpa",
                      "cpm", "conversions", "clicks", "impressions", "spend",
                      "revenue", "roas", "financial",
                      IF unit.video THEN "video_completion_rate"
                      ELSE "financial",
                      "financial">>
        IN unit.ret = <<sets[first]>>

\* two rules match and the earlier one is written last in the question
C25_Witness ==
    /\ unit.fn = "detectRequestedMetrics" /\ unit.done
    /\ unit.goal = Undefined
    /\ unit.rules = {7, 13}
    /\ unit.userQuestion = "Show ROAS and cpm"
    /\ unit.ret = <<"cpm">>

(***************************************************************************)
(* Properties of executeAndAggregate (specification SpecUnit)              *)
(***************************************************************************)
\* C22: for one query text and one set of fetched records, two runs of
\* executeAndAggregate with any two questions and goals (and so with any
\* metric set and either value of the strategy flag) compute the same
\* aggregates: the same counters and derived metrics, for the same groups.
C22_AggregationIgnoresPresentation ==
    (unit.fn = "executeAndAggregate" /\ unit.done) =>
        /\ unit.results[1].threw = unit.results[2].threw
        /\ unit.results[1].rawData = unit.results[2].rawData
        /\ unit.results[1].visualization.data
                = unit.results[2].visualization.data

\* a filtered and grouped query, run for a strategy question with one goal
\* and for another question without goal, with different metric sets
C22_Witness ==
    /\ unit.fn = "executeAndAggregate" /\ unit.done
    /\ includes(unit.sql, "GROUP BY region")
    /\ unit.inputs[1].goal = "AWARENESS" /\ unit.inputs[2].goal = Undefined
    /\ ~unit.results[1].threw
    /\ Len(unit.results[1].rawData.groups) = 2
    /\ Len(unit.data) = 3
    /\ unit.results[2].rawData.groups[1].value.clicks > 0
    /\ unit.results[1].visualization.requestedMetrics
            # unit.results[2].visualization.requestedMetrics

(***************************************************************************)
(* Properties of the parsing of the generator's response (generation v4,   *)
(* specification SpecUnit)                                                 *)
(***************************************************************************)
\* C23 as stated: when the response has both markers GOAL: and SQL:, the
\* goal is the text of the line with GOAL: and the query text is all that
\* follows SQL:; otherwise the whole response is the query text and the goal
\* is CONVERSION; the response is a query if and only if the query text
\* contains SELECT in any case of letters.
C23_LenientParsing ==
    (unit.fn = "queryGeneratorAgent" /\ unit.done) =>
        /\ IF unit.goalMarker /\ unit.queryMarker
           THEN /\ unit.ret.goal = unit.goalText
                /\ unit.ret.content = unit.queryText
           ELSE /\ unit.ret.goal = "CONVERSION"
                /\ unit.ret.content = trim(unit.response)
        /\ unit.ret.isSQL <=> unit.select

\* C23 amended: with both markers, the goal is the text after GOAL: of the
\* first line that starts with GOAL:, and CONVERSION when no line starts
\* with it; the rest as stated.
C23_GoalLineStartsWithMarker ==
    (unit.fn = "queryGeneratorAgent" /\ unit.done) =>
        /\ IF unit.goalMarker /\ unit.queryMarker
           THEN /\ unit.ret.goal = IF unit.lineStart THEN unit.goalText
                                   ELSE "CONVERSION"
                /\ unit.ret.content = unit.queryText
           ELSE /\ unit.ret.goal = "CONVERSION"
                /\ unit.ret.content = trim(unit.response)
        /\ unit.ret.isSQL <=> unit.select

\* both markers, the goal marker inside a line: the goal of the response is
\* not taken
C23_Witness ==
    /\ unit.fn = "queryGeneratorAgent" /\ unit.done
    /\ unit.goalMarker /\ unit.queryMarker /\ ~unit.lineStart
    /\ unit.goalText = "AWARENESS" /\ unit.lead = "The "
    /\ unit.ret.goal = "CONVERSION"
    /\ unit.ret.isSQL

(***************************************************************************)
(* Properties of interleaved requests (specification SpecConcurrent)       *)
(***************************************************************************)
\* C24: requests that are interleaved in any order at their awaits are
\* independent.  A step of one request writes nothing of another request;
\* and what a request has computed, its result included, is determined by
\* its own inputs and by the responses that its own external calls got: two
\* requests with the same inputs and the same external responses are in the
\* same state and have the same result, whatever the other one did in
\* between (the runs in which one request is alone are among them).
C24_RequestsAreIndependent ==
    /\ [](\A r1, r2 \in Clients :
            (/\ pc[r1] = pc[r2]
             /\ req[r1] = req[r2]
             /\ ctx[r1].response = ctx[r2].response
             /\ ctx[r1].fetched = ctx[r2].fetched
             /\ ctx[r1].data = ctx[r2].data
             /\ ctx[r1].answerText = ctx[r2].answerText
             /\ ctx[r1].caught = ctx[r2].caught
             /\ ctx[r1].catchSite = ctx[r2].catchSite) =>
                /\ ctx[r1] = ctx[r2]
                /\ calls[r1] = calls[r2]
                /\ responses[r1] = responses[r2])
    /\ [][\A r \in Clients :
            (\/ pc'[r] # pc[r] \/ req'[r] # req[r] \/ ctx'[r] # ctx[r]
             \/ calls'[r] # calls[r] \/ responses'[r] # responses[r]) =>
                \A o \in Clients \ {r} :
                    /\ pc'[o] = pc[o] /\ req'[o] = req[o]
                    /\ ctx'[o] = ctx[o] /\ calls'[o] = calls[o]
                    /\ responses'[o] = responses[o]]_vars

\* the second request has its answer while the first one, received with
\* another question, still waits for the renderer
C24_Witness ==
    /\ unit = UnitConcurrent
    /\ pc[1] = "rendering" /\ pc[2] = "done"
    /\ req[1].message # req[2].message
    /\ ctx[1].sql # ctx[2].sql
    /\ Len(responses[2]) = 1 /\ responses[2][1].success
    /\ Len(responses[1]) = 0

(***************************************************************************)
(* Properties of the conversation context (generation v4, specification    *)
(* Spec)                                                                   *)
(***************************************************************************)
\* C26: for every history, the text handed to the generator has the line
\* "Previous query goal: <GOAL>" with the goal of the newest history entry
\* that carries a goal, however many entries without goal follow it; when
\* no entry carries a goal the text has no such line.
C26_NewestGoalIsPassed ==
    \A r \in Requests :
        (build = "v4" /\ pc[r] = "generating") =>
            LET h == req[r].conversationHistory
                newest[n \in 0..Len(h)] ==
                    IF n = 0 THEN Null
                    ELSE IF h[n].goal # Undefined THEN h[n].goal
                    ELSE newest[n - 1]
                goal == newest[Len(h)]
            IN IF goal = Null
               THEN ~includes(ctx[r].generatorInput, "Previous query goal:")
               ELSE /\ includes(ctx[r].generatorInput,
                        "\nPrevious query goal: " \o goal
                            \o "\n\nCurrent question: " \o req[r].message)
                    /\ Cardinality(occurrences(ctx[r].generatorInput,
                                               "Previous query goal:")) = 1

\* the newest entry has no goal, the one before it has
C26_Witness ==
    /\ build = "v4" /\ pc[1] = "generating"
    /\ Len(req[1].conversationHistory) = 2
    /\ req[1].conversationHistory[1].goal = "ENGAGEMENT"
    /\ req[1].conversationHistory[2].goal = Undefined
    /\ includes(ctx[1].generatorInput, "Previous query goal: ENGAGEMENT\n")

(***************************************************************************)
(* Properties of the filters of executeAndAggregate (specification         *)
(* SpecUnit)                                                               *)
(***************************************************************************)
\* C27: the records handed to the aggregation are exactly the fetched
\* records that, for every dimension (platform, region, age_group, gender)
\* with a filter that is not null, have a value of the filter's list; a
\* dimension with a null filter excludes no record; applying the four
\* filters in another order gives the same records.
C27_FiltersComposeByAnd ==
    (unit.fn = "filterRecords" /\ unit.done) =>
        LET Listed(row, i) ==
                \E k \in 1..Len(unit.filters[i].values) :
                    unit.filters[i].values[k] = row[Dimensions[i]]
            Keeps(row, i) == unit.filters[i].isNull \/ Listed(row, i)
            One(rows, i) == SelectSeq(rows, LAMBDA row : Keeps(row, i))
        IN /\ unit.ret =
                SelectSeq(unit.data,
                    LAMBDA row : \A i \in 1..Len(Dimensions) : Keeps(row, i))
           /\ unit.ret = One(One(One(One(unit.data, 4), 3), 2), 1)
           /\ unit.ret = One(One(One(One(unit.data, 2), 4), 1), 3)
           /\ \A i \in 1..Len(Dimensions) :
                unit.filters[i].isNull <=> unit.predicates[i] = ""

\* two filters are set and two are null; one record passes both, one
\* passes the platform filter only, one passes neither
C27_Witness ==
    /\ unit.fn = "filterRecords" /\ unit.done
    /\ unit.predicates[1] = "platform = 'TikTok'"
    /\ unit.predicates[2] = "region = 'West'"
    /\ unit.filters[3].isNull /\ unit.filters[4].isNull
    /\ Len(unit.data) = 3 /\ Len(unit.ret) = 1
    /\ \E n \in 1..3 : /\ unit.data[n].region # "West"
                       /\ unit.data[n].platform = "TikTok"
    /\ \E n \in 1..3 : /\ unit.data[n].region # "West"
                       /\ unit.data[n].platform # "TikTok"

\* C28: for every query text and column, parseFilterValues returns null or
\* a list of at least one value, never the empty list, also for an IN list
\* whose items are empty or blank.
C28_NeverEmptyList ==
    (unit.fn = "parseFilterValues" /\ unit.done) =>
        unit.ret.isNull \/ Len(unit.ret.values) >= 1

\* C30: with a detected dimension, the keys of the mapping that
\* aggregateByDimension returns are exactly the values of that dimension
\* among the records it is given, each key once (no empty group, no extra
\* key); with the dimension null, all the records are in one group, and its
\* counters are those of the single aggregate of the same records.
C30_GroupingKeys ==
    (unit.fn = "aggregate" /\ unit.done) =>
        LET g == unit.grouped
        IN IF unit.dimension # Null
           THEN /\ {g[i].key : i \in 1..Len(g)}
                      = {unit.data[n][unit.dimension] :
                            n \in 1..Len(unit.data)}
                /\ \A i, j \in 1..Len(g) : g[i].key = g[j].key => i = j
                /\ \A i \in 1..Len(g) :
                      \E n \in 1..Len(unit.data) :
                          /\ unit.data[n][unit.dimension] = g[i].key
                          /\ g[i].value.impressions
                                >= (IF "impressions" \in unit.data[n].nulls
                                    THEN 0 ELSE unit.data[n].impressions)
           ELSE /\ Len(g) = (IF Len(unit.data) = 0 THEN 0 ELSE 1)
                /\ \A i \in 1..Len(g) :
                      \A c \in Counters : g[i].value[c] = unit.single[c]

\* a grouping keyword with an unknown column: three records of two
\* platforms in the one group
C30_Witness ==
    /\ unit.fn = "aggregate" /\ unit.done
    /\ unit.dimension = Null
    /\ Len(unit.data) = 3 /\ Len(unit.grouped) = 1
    /\ unit.data[1].platform # unit.data[2].platform
    /\ unit.grouped[1].value.spend = unit.single.spend
    /\ unit.single.spend > 0

(***************************************************************************)
(* Properties of the text that is executed (generations v2, v3 and v4,     *)
(* specification Spec)                                                     *)
(***************************************************************************)
\* C29: in every request that reaches execution, the query text from which
\* filters and shape are extracted, and the text in the field sql of the
\* result, are the very text that the validator approved (the generated
\* text with its trailing terminator stripped).
C29_OnlyValidatedTextIsExecuted ==
    \A r \in Requests :
        (/\ build \in {"v2", "v3", "v4"}
         /\ \E i \in 1..Len(calls[r]) : calls[r][i] = "source") =>
            /\ ctx[r].validation.valid
            /\ ctx[r].sql = ctx[r].validated
            /\ \A i \in 1..Len(responses[r]) :
                  "sql" \in responses[r][i].keys =>
                       responses[r][i].sql = ctx[r].validated

=============================================================================
